---- MODULE Spec2Model ----
(***************************************************************************)
(* Model of the image converter core of RayhungKao/produce:                *)
(*   src/components/features/image-converter/utils/image-utils.js          *)
(* Format sniffer (detectActualFileType), synchronous validator            *)
(* (validateFile) and deep validator (validateFileWithSignature).          *)
(*                                                                         *)
(* JavaScript strings are modelled as sequences of character codes, byte   *)
(* buffers as sequences of 0..255, so that startsWith / includes / slice   *)
(* are computed and not assumed.                                           *)
(***************************************************************************)
EXTENDS Integers, Sequences, FiniteSets, TLC

(***************************************************************************)
(* JavaScript primitives                                                   *)
(***************************************************************************)

Min(a, b) == IF a <= b THEN a ELSE b

Max(a, b) == IF a >= b THEN a ELSE b

\* The value of an out-of-range typed-array read (bytes[i] with i >= length).
Undefined == -1

\* Uint8Array index read, 0-based: bytes[i].
ByteAt(bytes, i) == IF i >= 0 /\ i < Len(bytes) THEN bytes[i + 1] ELSE Undefined

\* Array.prototype.slice(a, b) / Blob.prototype.slice(a, b), 0-based, end exclusive.
JsSlice(s, a, b) ==
  LET lo == Min(a, Len(s))
      hi == Min(b, Len(s))
  IN  IF hi <= lo THEN << >> ELSE SubSeq(s, lo + 1, hi)

\* String.prototype.includes(needle).
Includes(hay, needle) ==
  \E i \in 0..(Len(hay) - Len(needle)) : SubSeq(hay, i + 1, i + Len(needle)) = needle

\* String.prototype.startsWith(prefix).
StartsWith(s, prefix) ==
  Len(s) >= Len(prefix) /\ SubSeq(s, 1, Len(prefix)) = prefix

\* String.fromCharCode(...bytes): one UTF-16 unit per byte, same codes.
FromCharCode(bytes) == bytes

\* JavaScript truthiness of a string.
Truthy(str) == Len(str) > 0

\* n zero bytes.
Zeros(n) == [i \in 1..n |-> 0]

(***************************************************************************)
(* String literals of the module, as character codes                       *)
(***************************************************************************)

IMAGE_SLASH == <<105, 109, 97, 103, 101, 47>>                      \* "image/"
MIME_JPEG == IMAGE_SLASH \o <<106, 112, 101, 103>>                 \* "image/jpeg"
MIME_PNG  == IMAGE_SLASH \o <<112, 110, 103>>                      \* "image/png"
MIME_WEBP == IMAGE_SLASH \o <<119, 101, 98, 112>>                  \* "image/webp"
MIME_GIF  == IMAGE_SLASH \o <<103, 105, 102>>                      \* "image/gif"
MIME_BMP  == IMAGE_SLASH \o <<98, 109, 112>>                       \* "image/bmp"
MIME_SVG  == IMAGE_SLASH \o <<115, 118, 103, 43, 120, 109, 108>>   \* "image/svg+xml"
MIME_ICO  == IMAGE_SLASH \o <<120, 45, 105, 99, 111, 110>>         \* "image/x-icon"
MIME_AVIF == IMAGE_SLASH \o <<97, 118, 105, 102>>                  \* "image/avif"
MIME_TIFF == IMAGE_SLASH \o <<116, 105, 102, 102>>                 \* "image/tiff"
\* "application/octet-stream"
MIME_OCTET == <<97, 112, 112, 108, 105, 99, 97, 116, 105, 111, 110, 47,
                111, 99, 116, 101, 116, 45, 115, 116, 114, 101, 97, 109>>
MIME_TEXT == <<116, 101, 120, 116, 47, 112, 108, 97, 105, 110>>    \* "text/plain"
MIME_EMPTY == << >>                                                \* ""

NAME_JPEG == <<74, 80, 69, 71>>     \* "JPEG"
NAME_PNG  == <<80, 78, 71>>         \* "PNG"
NAME_WEBP == <<87, 101, 98, 80>>    \* "WebP"
NAME_GIF  == <<71, 73, 70>>         \* "GIF"
NAME_BMP  == <<66, 77, 80>>         \* "BMP"
NAME_SVG  == <<83, 86, 71>>         \* "SVG"
NAME_ICO  == <<73, 67, 79>>         \* "ICO"
NAME_AVIF == <<65, 86, 73, 70>>     \* "AVIF"

TXT_XML     == <<60, 63, 120, 109, 108>>                                   \* "<?xml"
TXT_SVG     == <<60, 115, 118, 103>>                                       \* "<svg"
TXT_DOCTYPE == <<60, 33, 68, 79, 67, 84, 89, 80, 69, 32, 115, 118, 103>>   \* "<!DOCTYPE svg"
TXT_FTYP    == <<102, 116, 121, 112>>                                      \* "ftyp"
TXT_AVIF    == <<97, 118, 105, 102>>                                       \* "avif"
TXT_WEBP    == <<87, 69, 66, 80>>                                          \* "WEBP"
TXT_WAVE    == <<87, 65, 86, 69>>                                          \* "WAVE"
TXT_HEIC    == <<104, 101, 105, 99>>                                       \* "heic"
TXT_HELLO   == <<104, 101, 108, 108, 111>>                                 \* "hello"

\* "Unable to verify file format. Proceeding based on extension ("
WARN_UNVERIFIED_PRE ==
  <<85, 110, 97, 98, 108, 101, 32, 116, 111, 32, 118, 101, 114, 105, 102, 121, 32,
    102, 105, 108, 101, 32, 102, 111, 114, 109, 97, 116, 46, 32, 80, 114, 111, 99,
    101, 101, 100, 105, 110, 103, 32, 98, 97, 115, 101, 100, 32, 111, 110, 32, 101,
    120, 116, 101, 110, 115, 105, 111, 110, 32, 40>>
WARN_UNVERIFIED_POST == <<41>>                                             \* ")"
\* "File extension suggests "
WARN_MISMATCH_PRE ==
  <<70, 105, 108, 101, 32, 101, 120, 116, 101, 110, 115, 105, 111, 110, 32, 115,
    117, 103, 103, 101, 115, 116, 115, 32>>
\* ", but actual content is "
WARN_MISMATCH_MID ==
  <<44, 32, 98, 117, 116, 32, 97, 99, 116, 117, 97, 108, 32, 99, 111, 110, 116,
    101, 110, 116, 32, 105, 115, 32>>
\* ". Using detected format."
WARN_MISMATCH_POST ==
  <<46, 32, 85, 115, 105, 110, 103, 32, 100, 101, 116, 101, 99, 116, 101, 100, 32,
    102, 111, 114, 109, 97, 116, 46>>

ERR_NO_FILE      == "No file selected"
ERR_TOO_LARGE    == "File size exceeds 50MB limit"
ERR_INVALID_TYPE == "Invalid file type. Please upload an image."
ERR_UNRECOGNIZED == "Unrecognized file format. Please upload a valid image."

(***************************************************************************)
(* Format tables                                                           *)
(***************************************************************************)

\* FILE_SIGNATURES in Object.entries order. check names the additionalCheck.
FILE_SIGNATURES ==
  << [key |-> "jpeg",   signature |-> <<255, 216, 255>>,
      mimeType |-> MIME_JPEG, name |-> NAME_JPEG, check |-> "none"],
     [key |-> "png",    signature |-> <<137, 80, 78, 71, 13, 10, 26, 10>>,
      mimeType |-> MIME_PNG,  name |-> NAME_PNG,  check |-> "none"],
     [key |-> "gif87a", signature |-> <<71, 73, 70, 56, 55, 97>>,
      mimeType |-> MIME_GIF,  name |-> NAME_GIF,  check |-> "none"],
     [key |-> "gif89a", signature |-> <<71, 73, 70, 56, 57, 97>>,
      mimeType |-> MIME_GIF,  name |-> NAME_GIF,  check |-> "none"],
     [key |-> "webp",   signature |-> <<82, 73, 70, 70>>,
      mimeType |-> MIME_WEBP, name |-> NAME_WEBP, check |-> "webp"],
     [key |-> "bmp",    signature |-> <<66, 77>>,
      mimeType |-> MIME_BMP,  name |-> NAME_BMP,  check |-> "none"],
     [key |-> "ico",    signature |-> <<0, 0, 1, 0>>,
      mimeType |-> MIME_ICO,  name |-> NAME_ICO,  check |-> "none"],
     [key |-> "avif",   signature |-> <<0, 0, 0>>,
      mimeType |-> MIME_AVIF, name |-> NAME_AVIF, check |-> "avif"] >>

INPUT_FORMATS ==
  << [name |-> NAME_JPEG, mimeType |-> MIME_JPEG],
     [name |-> NAME_PNG,  mimeType |-> MIME_PNG],
     [name |-> NAME_WEBP, mimeType |-> MIME_WEBP],
     [name |-> NAME_GIF,  mimeType |-> MIME_GIF],
     [name |-> NAME_BMP,  mimeType |-> MIME_BMP],
     [name |-> NAME_SVG,  mimeType |-> MIME_SVG],
     [name |-> NAME_ICO,  mimeType |-> MIME_ICO],
     [name |-> NAME_AVIF, mimeType |-> MIME_AVIF] >>

\* webp.additionalCheck: "WEBP" at bytes 8-11.
WebpAdditionalCheck(bytes) ==
  /\ ByteAt(bytes, 8) = 87
  /\ ByteAt(bytes, 9) = 69
  /\ ByteAt(bytes, 10) = 66
  /\ ByteAt(bytes, 11) = 80

\* avif.additionalCheck: the text of bytes 4..11 includes "ftyp" and includes "avif".
AvifAdditionalCheck(bytes) ==
  LET str == FromCharCode(JsSlice(bytes, 4, 12))
  IN  Includes(str, TXT_FTYP) /\ Includes(str, TXT_AVIF)

AdditionalCheck(format, bytes) ==
  CASE format.check = "webp" -> WebpAdditionalCheck(bytes)
    [] format.check = "avif" -> AvifAdditionalCheck(bytes)
    [] OTHER -> TRUE

(***************************************************************************)
(* Values                                                                  *)
(***************************************************************************)

\* JavaScript null (a sniff result, a claimedType).
Null == [isNull |-> TRUE]

\* The absent file: validateFile(null) / validateFile(undefined).
NoFile == [absent |-> TRUE]

\* Result of Array.prototype.find when nothing is found.
NotFound == [notFound |-> TRUE]

\* A File: declared MIME type, size in bytes and content. head holds the
\* leading bytes explicitly; the bytes from Len(head) up to size are zero.
File(type, size, head) == [type |-> type, size |-> size, head |-> head]

\* Blob.prototype.slice(start, end) followed by a successful
\* readAsArrayBuffer: the bytes start..min(end, size)-1 of the content.
BlobSliceBytes(file, start, end) ==
  LET hi == Min(end, file.size)
  IN  IF hi <= start THEN << >>
      ELSE [i \in 1..(hi - start) |->
              IF start + i <= Len(file.head) THEN file.head[start + i] ELSE 0]

(***************************************************************************)
(* detectActualFileType                                                    *)
(***************************************************************************)

\* Number of leading bytes handed to the FileReader: file.slice(0, 100).
READ_WINDOW == 100

\* Mutant: the comparison loop stops after the first signature byte.
SignatureMatchesFirstByte(signature, bytes) ==
  ByteAt(bytes, 0) = signature[1]

\* Inner loop of reader.onload: every signature byte equals bytes[i].
SignatureMatches(signature, bytes) ==
  \A i \in 0..(Len(signature) - 1) : ByteAt(bytes, i) = signature[i + 1]

SniffRecord(mimeType, name) ==
  [mimeType |-> mimeType, name |-> name, detectedFrom |-> "file-signature"]

\* Mutant: the "<!DOCTYPE svg" marker is not tested.
SvgFallbackNoDoctype(bytes) ==
  LET textStart == FromCharCode(JsSlice(bytes, 0, 100))
  IN  IF Includes(textStart, TXT_XML) \/ Includes(textStart, TXT_SVG)
      THEN SniffRecord(MIME_SVG, NAME_SVG)
      ELSE Null

\* Text fallback after the signature loop.
SvgFallback(bytes) ==
  LET textStart == FromCharCode(JsSlice(bytes, 0, 100))
  IN  IF \/ Includes(textStart, TXT_XML)
         \/ Includes(textStart, TXT_SVG)
         \/ Includes(textStart, TXT_DOCTYPE)
      THEN SniffRecord(MIME_SVG, NAME_SVG)
      ELSE Null

\* The for..of loop over Object.entries(FILE_SIGNATURES) from entry k on,
\* then the text fallback.
RECURSIVE DetectLoop(_, _, _)
DetectLoop(sigs, k, bytes) ==
  IF k > Len(sigs) THEN SvgFallback(bytes)
  ELSE LET format == sigs[k]
       IN  IF SignatureMatches(format.signature, bytes)
           THEN IF format.check # "none"
                THEN IF AdditionalCheck(format, bytes)
                     THEN SniffRecord(format.mimeType, format.name)
                     ELSE DetectLoop(sigs, k + 1, bytes)
                ELSE SniffRecord(format.mimeType, format.name)
           ELSE DetectLoop(sigs, k + 1, bytes)

\* Value reader.onload resolves the promise with.
OnLoadValue(sigs, bytes) == DetectLoop(sigs, 1, bytes)

\* The bytes the FileReader delivers: file.slice(0, 100).
ReadRequest(file) == BlobSliceBytes(file, 0, READ_WINDOW)

(***************************************************************************)
(* validateFile                                                            *)
(***************************************************************************)

MAX_SIZE == 50 * 1024 * 1024

\* INPUT_FORMATS.map(f => f.mimeType)
ValidTypes(fmts) == {fmts[i].mimeType : i \in 1..Len(fmts)}

\* Mutant: the declared type is checked before the size.
ValidateFileTypeFirst(fmts, file) ==
  IF file = NoFile
  THEN [valid |-> FALSE, error |-> ERR_NO_FILE]
  ELSE IF file.type \notin ValidTypes(fmts) /\ ~StartsWith(file.type, IMAGE_SLASH)
  THEN [valid |-> FALSE, error |-> ERR_INVALID_TYPE]
  ELSE IF file.size > MAX_SIZE
  THEN [valid |-> FALSE, error |-> ERR_TOO_LARGE]
  ELSE [valid |-> TRUE]

ValidateFile(fmts, file) ==
  IF file = NoFile
  THEN [valid |-> FALSE, error |-> ERR_NO_FILE]
  ELSE IF file.size > MAX_SIZE
  THEN [valid |-> FALSE, error |-> ERR_TOO_LARGE]
  ELSE IF file.type \notin ValidTypes(fmts) /\ ~StartsWith(file.type, IMAGE_SLASH)
  THEN [valid |-> FALSE, error |-> ERR_INVALID_TYPE]
  ELSE [valid |-> TRUE]

(***************************************************************************)
(* validateFileWithSignature, the part after the await                     *)
(***************************************************************************)

\* INPUT_FORMATS.find(f => f.mimeType === claimedMime)
FindFormat(fmts, claimedMime) ==
  LET hits == {i \in 1..Len(fmts) : fmts[i].mimeType = claimedMime}
  IN  IF hits = {} THEN NotFound
      ELSE fmts[CHOOSE i \in hits : \A j \in hits : i <= j]

\* claimedFormat?.name || claimedMime
ClaimedName(claimedFormat, claimedMime) ==
  IF claimedFormat # NotFound /\ Truthy(claimedFormat.name)
  THEN claimedFormat.name
  ELSE claimedMime

\* claimedFormat ? { mimeType: claimedMime, name: claimedFormat.name } : null
ClaimedTypeOrNull(claimedFormat, claimedMime) ==
  IF claimedFormat # NotFound
  THEN [mimeType |-> claimedMime, name |-> claimedFormat.name]
  ELSE Null

\* Mutant: a mismatch between declared and sniffed type fails validation.
SignatureVerdictRejectMismatch(fmts, file, actualType) ==
  LET claimedMime   == file.type
      claimedFormat == FindFormat(fmts, claimedMime)
  IN  IF actualType = Null
      THEN IF StartsWith(claimedMime, IMAGE_SLASH)
           THEN [valid |-> TRUE,
                 warning |-> WARN_UNVERIFIED_PRE
                             \o ClaimedName(claimedFormat, claimedMime)
                             \o WARN_UNVERIFIED_POST,
                 claimedType |-> ClaimedTypeOrNull(claimedFormat, claimedMime)]
           ELSE [valid |-> FALSE, error |-> ERR_UNRECOGNIZED]
      ELSE IF Truthy(claimedMime) /\ actualType.mimeType # claimedMime
           THEN LET claimedName == ClaimedName(claimedFormat, claimedMime)
                IN  [valid |-> FALSE,
                     warning |-> WARN_MISMATCH_PRE \o claimedName
                                 \o WARN_MISMATCH_MID \o actualType.name
                                 \o WARN_MISMATCH_POST,
                     actualType |-> actualType,
                     claimedType |-> [mimeType |-> claimedMime, name |-> claimedName],
                     correctedType |-> actualType]
           ELSE [valid |-> TRUE,
                 actualType |-> actualType,
                 claimedType |-> ClaimedTypeOrNull(claimedFormat, claimedMime)]

\* Mutant: a null sniff is rejected whatever the declared type.
SignatureVerdictRejectUnknown(fmts, file, actualType) ==
  LET claimedMime   == file.type
      claimedFormat == FindFormat(fmts, claimedMime)
  IN  IF actualType = Null
      THEN [valid |-> FALSE, error |-> ERR_UNRECOGNIZED]
      ELSE IF Truthy(claimedMime) /\ actualType.mimeType # claimedMime
           THEN LET claimedName == ClaimedName(claimedFormat, claimedMime)
                IN  [valid |-> TRUE,
                     warning |-> WARN_MISMATCH_PRE \o claimedName
                                 \o WARN_MISMATCH_MID \o actualType.name
                                 \o WARN_MISMATCH_POST,
                     actualType |-> actualType,
                     claimedType |-> [mimeType |-> claimedMime, name |-> claimedName],
                     correctedType |-> actualType]
           ELSE [valid |-> TRUE,
                 actualType |-> actualType,
                 claimedType |-> ClaimedTypeOrNull(claimedFormat, claimedMime)]

SignatureVerdict(fmts, file, actualType) ==
  LET claimedMime   == file.type
      claimedFormat == FindFormat(fmts, claimedMime)
  IN  IF actualType = Null
      THEN IF StartsWith(claimedMime, IMAGE_SLASH)
           THEN [valid |-> TRUE,
                 warning |-> WARN_UNVERIFIED_PRE
                             \o ClaimedName(claimedFormat, claimedMime)
                             \o WARN_UNVERIFIED_POST,
                 claimedType |-> ClaimedTypeOrNull(claimedFormat, claimedMime)]
           ELSE [valid |-> FALSE, error |-> ERR_UNRECOGNIZED]
      ELSE IF Truthy(claimedMime) /\ actualType.mimeType # claimedMime
           THEN LET claimedName == ClaimedName(claimedFormat, claimedMime)
                IN  [valid |-> TRUE,
                     warning |-> WARN_MISMATCH_PRE \o claimedName
                                 \o WARN_MISMATCH_MID \o actualType.name
                                 \o WARN_MISMATCH_POST,
                     actualType |-> actualType,
                     claimedType |-> [mimeType |-> claimedMime, name |-> claimedName],
                     correctedType |-> actualType]
           ELSE [valid |-> TRUE,
                 actualType |-> actualType,
                 claimedType |-> ClaimedTypeOrNull(claimedFormat, claimedMime)]

(***************************************************************************)
(* Inputs                                                                  *)
(***************************************************************************)

\* Longest prefix length used when truncating a header.
MaxCut == 13

\* A tail marker starts at offsets (READ_WINDOW - 5)..(READ_WINDOW - 5 + MaxTailShift).
MaxTailShift == 5

\* File sizes MAX_SIZE - MaxSizeDelta .. MAX_SIZE + MaxSizeDelta are tried.
MaxSizeDelta == 1

H_JPEG    == <<255, 216, 255, 224, 0, 16, 74, 70, 73, 70, 0, 1>>
H_PNG     == <<137, 80, 78, 71, 13, 10, 26, 10, 0, 0, 0, 13>>
H_GIF87   == <<71, 73, 70, 56, 55, 97>> \o Zeros(6)
H_GIF89   == <<71, 73, 70, 56, 57, 97>> \o Zeros(6)
H_WEBP    == <<82, 73, 70, 70, 36, 0, 0, 0>> \o TXT_WEBP
H_WAVE    == <<82, 73, 70, 70, 36, 0, 0, 0>> \o TXT_WAVE
H_RIFFSVG == <<82, 73, 70, 70, 36, 0, 0, 0>> \o TXT_SVG
H_BMPSVG  == <<66, 77, 0, 0>> \o TXT_SVG \o Zeros(4)
H_ICO     == <<0, 0, 1, 0, 1, 0, 16, 16, 0, 0, 1, 0>>
H_AVIF    == <<0, 0, 0, 28>> \o TXT_FTYP \o TXT_AVIF
H_AVIFREV == <<0, 0, 0, 28>> \o TXT_AVIF \o TXT_FTYP
H_AVIF11  == <<0, 0, 0, 28>> \o TXT_AVIF \o <<116, 121, 112>>
H_HEIC    == <<0, 0, 0, 28>> \o TXT_FTYP \o TXT_HEIC
H_ZEROSVG == <<0, 0, 0, 0>> \o TXT_SVG \o Zeros(4)
H_ZEROS   == Zeros(12)
H_SVG     == TXT_SVG \o <<32>> \o TXT_HELLO
H_XML     == TXT_XML \o <<32>> \o TXT_HELLO
H_DOCTYPE == TXT_DOCTYPE
H_HELLO   == TXT_HELLO \o <<32>> \o TXT_HELLO

Heads == {H_JPEG, H_PNG, H_GIF87, H_GIF89, H_WEBP, H_WAVE, H_RIFFSVG, H_BMPSVG,
          H_ICO, H_AVIF, H_AVIFREV, H_AVIF11, H_HEIC, H_ZEROSVG, H_ZEROS,
          H_SVG, H_XML, H_DOCTYPE, H_HELLO}

DeclaredTypes == {MIME_JPEG, MIME_PNG, MIME_SVG, MIME_AVIF, MIME_TIFF,
                  MIME_OCTET, MIME_TEXT, MIME_EMPTY}

\* A file whose size is the length of its explicit bytes.
SmallFile(type, bytes) == File(type, Len(bytes), bytes)

\* Headers cut to every length 0..MaxCut.
ShortFiles ==
  {SmallFile(MIME_JPEG, JsSlice(h, 0, c)) : h \in Heads, c \in 0..MaxCut}

\* Whole headers under every declared type.
TypedFiles == {SmallFile(t, h) : h \in Heads, t \in DeclaredTypes}

\* A header, zero padding, and a text marker near the end of the read window.
TailedFiles ==
  {SmallFile(t, h \o Zeros(o - Len(h)) \o m) :
     h \in {H_HELLO, H_JPEG, H_ZEROS},
     o \in (READ_WINDOW - 5)..(READ_WINDOW - 5 + MaxTailShift),
     m \in {TXT_SVG, TXT_XML},
     t \in {MIME_PNG, MIME_OCTET}}

\* Files around the size ceiling.
SizedFiles ==
  {File(t, MAX_SIZE + d, h) :
     t \in DeclaredTypes, d \in (0 - MaxSizeDelta)..MaxSizeDelta,
     h \in {H_JPEG, H_ZEROS}}

Files == {NoFile} \cup ShortFiles \cup TypedFiles \cup TailedFiles \cup SizedFiles

\* The leading n bytes of a file's content, explicitly.
Content(file, n) == BlobSliceBytes(file, 0, n)

\* Sources related to f: f itself, f under another declared type, f cut to
\* the read window, f followed by a text marker right after the read window.
Twins(f) ==
  IF f = NoFile THEN {NoFile}
  ELSE { f,
         [f EXCEPT !.type = IF f.type = MIME_OCTET THEN MIME_JPEG ELSE MIME_OCTET],
         File(f.type, Min(f.size, READ_WINDOW), Content(f, READ_WINDOW)),
         File(f.type, Max(f.size, READ_WINDOW + Len(TXT_SVG)),
              Content(f, READ_WINDOW) \o Zeros(READ_WINDOW - Min(f.size, READ_WINDOW))
                \o TXT_SVG) }

(***************************************************************************)
(* State                                                                   *)
(***************************************************************************)

\* Concurrent callers of the module.
Slots == {1, 2}

VARIABLES
  files,         \* files[s]: the File (or NoFile) caller s passes
  signatures,    \* the FILE_SIGNATURES table
  inputFormats,  \* the INPUT_FORMATS table
  calls,         \* calls[s]: the call caller s has in progress
  seen,          \* seen[s]: the verdict of caller s's previous validateFile call, or Null
  hostEncodes,   \* MIME types the host's canvas encoder can produce
  conv,          \* conv[s]: the convertImage call caller s has in progress
  sampleImages,  \* state, props and running loads of a SampleImages component
  converter,     \* state and running handlers of an ImageConverter component
  gestures       \* user gestures the application has handled

vars == <<files, signatures, inputFormats, calls, seen, hostEncodes, conv,
          sampleImages, converter, gestures>>

\* The variables of the validation operations and of the conversion pipeline.
validationVars == <<files, signatures, inputFormats, calls, seen>>

conversionVars == <<hostEncodes, conv>>

componentVars == <<sampleImages, converter, gestures>>

\* Samples 1..SampleCount of SAMPLE_IMAGES are on the page.
SampleCount == 2

SAMPLE_IMAGES ==
  << [id |-> "photo",          \* "sample-photo.jpg"
      filename |-> <<115, 97, 109, 112, 108, 101, 45, 112, 104, 111, 116, 111, 46, 106, 112, 103>>],
     [id |-> "illustration",   \* "sample-illustration.png"
      filename |-> <<115, 97, 109, 112, 108, 101, 45, 105, 108, 108, 117, 115, 116, 114, 97, 116, 105, 111, 110, 46, 112, 110, 103>>],
     [id |-> "transparent",    \* "sample-transparent.png"
      filename |-> <<115, 97, 109, 112, 108, 101, 45, 116, 114, 97, 110, 115, 112, 97, 114, 101, 110, 116, 46, 112, 110, 103>>],
     [id |-> "landscape",      \* "sample-landscape.jpg"
      filename |-> <<115, 97, 109, 112, 108, 101, 45, 108, 97, 110, 100, 115, 99, 97, 112, 101, 46, 106, 112, 103>>] >>

SampleIds == {SAMPLE_IMAGES[i].id : i \in 1..Min(SampleCount, Len(SAMPLE_IMAGES))}

\* No loadSampleImage invocation in this place.
IdleLoad ==
  [pc |-> "idle",          \* idle / fetching / blobbing / done
   sample |-> "",          \* sample.id
   responseOk |-> FALSE,   \* a response with response.ok arrived
   blobType |-> << >>,     \* blob.type of the body, once read
   selects |-> 0,          \* onImageSelect calls made
   mounted |-> TRUE]       \* the component that started it is still mounted

\* SampleImages after its first render.
InitialSampleImages ==
  [loadingId |-> Null,
   errors |-> [i \in SampleIds |-> Null],
   globalError |-> Null,
   disabled |-> FALSE,
   loads |-> [k \in Slots |-> IdleLoad]]

\* FileUpload's useState values at its first render.
InitialFileUpload ==
  [validationError |-> Null,
   validationWarning |-> Null,
   detectedType |-> Null,
   isValidating |-> FALSE]

\* No invocation of an async handler in this place.
IdleHandler ==
  [pc |-> "idle",
   file |-> Null,          \* the handler's file argument
   dataUrl |-> Null,       \* handleFileSelect: what the FileReader read
   mounted |-> TRUE]       \* the component that started it is still mounted

\* ImageConverter's useState values at its first render.
InitialConverter ==
  [inputMode |-> "upload",
   originalFile |-> Null,
   originalImage |-> Null,
   convertedBlob |-> Null,
   conversionSettings |-> [format |-> MIME_JPEG, quality |-> 90,
                           width |-> [given |-> FALSE, value |-> 0],
                           height |-> [given |-> FALSE, value |-> 0],
                           maintainAspectRatio |-> TRUE],
   supportedFormats |-> << >>,
   isConverting |-> FALSE,
   error |-> Null,
   currentStep |-> 0,
   mounted |-> FALSE,         \* the mount effect has run
   probes |-> << >>,          \* the toDataURL calls of getSupportedFormats
   upload |-> InitialFileUpload,
   validations |-> [k \in Slots |-> IdleHandler],  \* running FileUpload.handleFile
   loads |-> [k \in Slots |-> IdleHandler],        \* running handleFileSelect
   download |-> Null]         \* the last download handleDownload triggered

\* No call in progress.
IdleCall ==
  [op |-> "none", pc |-> "idle",
   reader |-> "none",     \* FileReader: none / loading / loaded / failed
   reads |-> 0,           \* readAsArrayBuffer calls started
   promise |-> "none",    \* detectActualFileType's promise: none / pending / resolved / rejected
   settles |-> 0,         \* resolve / reject calls made on it
   value |-> Null,        \* value it resolved with
   outcome |-> "none",    \* the call itself: none / pending / returned / fulfilled / rejected
   result |-> Null]       \* value returned or fulfilled with

\* No convertImage call in progress.
IdleConversion ==
  [pc |-> "idle",
   image |-> Null, settings |-> Null,
   targetWidth |-> 0, targetHeight |-> 0,
   log |-> << >>,          \* host calls made, in order
   canvas |-> Null,        \* the canvas element created, with its assigned size
   surface |-> Null,       \* the canvas element the call's frame and closure refer to
   fill |-> Null,          \* fillStyle and rectangle of ctx.fillRect
   drawn |-> Null,         \* rectangle of ctx.drawImage
   encode |-> Null,        \* type and quality passed to canvas.toBlob
   callback |-> "none",    \* what the toBlob callback received: "blob" or "null"
   settles |-> 0,          \* resolve / reject of the call's promise
   outcome |-> "none",     \* none / pending / fulfilled / rejected
   blob |-> Null,          \* the fulfilment value
   error |-> Null]         \* the rejection reason

Init ==
  /\ \E f \in Files : \E g \in Twins(f) : files = [s \in Slots |-> IF s = 1 THEN f ELSE g]
  /\ signatures = FILE_SIGNATURES
  /\ inputFormats = INPUT_FORMATS
  /\ calls = [s \in Slots |-> IdleCall]
  /\ seen = [s \in Slots |-> Null]
  /\ hostEncodes = {MIME_JPEG, MIME_PNG, MIME_WEBP}
  /\ conv = [s \in Slots |-> IdleConversion]
  /\ sampleImages = InitialSampleImages
  /\ converter = InitialConverter
  /\ gestures = 0

(***************************************************************************)
(* Operations                                                              *)
(***************************************************************************)

\* new FileReader(); reader.readAsArrayBuffer(file.slice(0, 100)) inside a
\* new Promise.
StartRead(c) ==
  [c EXCEPT !.reader = "loading", !.reads = @ + 1, !.promise = "pending"]

\* Mutant: validateFile reverses INPUT_FORMATS in place before mapping it.
CallValidateFileReversing(s) ==
  /\ calls[s].pc = "idle"
  /\ inputFormats' = [i \in 1..Len(inputFormats) |->
                        inputFormats[Len(inputFormats) + 1 - i]]
  /\ calls' = [calls EXCEPT ![s] =
       [IdleCall EXCEPT !.op = "validateFile", !.pc = "done",
                        !.outcome = "returned",
                        !.result = ValidateFile(inputFormats', files[s])]]
  /\ UNCHANGED <<files, signatures, seen, conversionVars, componentVars>>

\* validateFile(file): synchronous.
CallValidateFile(s) ==
  /\ calls[s].pc = "idle"
  /\ calls' = [calls EXCEPT ![s] =
       [IdleCall EXCEPT !.op = "validateFile", !.pc = "done",
                        !.outcome = "returned",
                        !.result = ValidateFile(inputFormats, files[s])]]
  /\ UNCHANGED <<files, signatures, inputFormats, seen, conversionVars, componentVars>>

\* detectActualFileType(file) up to the return of the pending promise.
CallDetect(s) ==
  /\ calls[s].pc = "idle"
  /\ files[s] # NoFile
  /\ calls' = [calls EXCEPT ![s] =
       [StartRead(IdleCall) EXCEPT !.op = "detectActualFileType",
                                   !.pc = "reading", !.outcome = "pending"]]
  /\ UNCHANGED <<files, signatures, inputFormats, seen, conversionVars, componentVars>>

\* Mutant: the sniff of a present file is started before the basic verdict
\* is looked at.
CallValidateFileWithSignatureSniffFirst(s) ==
  /\ calls[s].pc = "idle"
  /\ LET basicResult == ValidateFile(inputFormats, files[s])
     IN  calls' = [calls EXCEPT ![s] =
           IF files[s] = NoFile
           THEN [IdleCall EXCEPT !.op = "validateFileWithSignature", !.pc = "done",
                                 !.outcome = "fulfilled", !.result = basicResult]
           ELSE [StartRead(IdleCall) EXCEPT !.op = "validateFileWithSignature",
                                            !.pc = "reading", !.outcome = "pending"]]
  /\ UNCHANGED <<files, signatures, inputFormats, seen, conversionVars, componentVars>>

\* validateFileWithSignature(file) up to its first return or its await.
CallValidateFileWithSignature(s) ==
  /\ calls[s].pc = "idle"
  /\ LET basicResult == ValidateFile(inputFormats, files[s])
     IN  calls' = [calls EXCEPT ![s] =
           IF ~basicResult.valid
           THEN [IdleCall EXCEPT !.op = "validateFileWithSignature", !.pc = "done",
                                 !.outcome = "fulfilled", !.result = basicResult]
           ELSE [StartRead(IdleCall) EXCEPT !.op = "validateFileWithSignature",
                                            !.pc = "reading", !.outcome = "pending"]]
  /\ UNCHANGED <<files, signatures, inputFormats, seen, conversionVars, componentVars>>

\* The promise of detectActualFileType resolves with v; a caller of
\* detectActualFileType gets v, validateFileWithSignature resumes later.
ResolveDetect(c, v) ==
  IF c.op = "detectActualFileType"
  THEN [c EXCEPT !.promise = "resolved", !.settles = @ + 1,
                 !.value = v, !.pc = "done", !.outcome = "fulfilled", !.result = v]
  ELSE [c EXCEPT !.promise = "resolved", !.settles = @ + 1,
                 !.value = v, !.pc = "awaiting"]

\* Mutant: the read and the text scan are not limited to 100 bytes.
ReaderOnLoadUnbounded(s) ==
  /\ calls[s].pc = "reading"
  /\ calls[s].reader = "loading"
  /\ LET bytes == BlobSliceBytes(files[s], 0, 2 * READ_WINDOW)
         bySignature == OnLoadValue(signatures, bytes)
         v == IF bySignature = Null /\ Includes(FromCharCode(bytes), TXT_SVG)
              THEN SniffRecord(MIME_SVG, NAME_SVG)
              ELSE bySignature
     IN  calls' = [calls EXCEPT ![s] = ResolveDetect([@ EXCEPT !.reader = "loaded"], v)]
  /\ UNCHANGED <<files, signatures, inputFormats, seen, conversionVars, componentVars>>

\* reader.onload: the read succeeded.
ReaderOnLoad(s) ==
  /\ calls[s].pc = "reading"
  /\ calls[s].reader = "loading"
  /\ calls' = [calls EXCEPT ![s] =
       ResolveDetect([@ EXCEPT !.reader = "loaded"],
                     OnLoadValue(signatures, ReadRequest(files[s])))]
  /\ UNCHANGED <<files, signatures, inputFormats, seen, conversionVars, componentVars>>

\* Mutant: reader.onerror rejects the promise.
ReaderOnErrorRejects(s) ==
  /\ calls[s].pc = "reading"
  /\ calls[s].reader = "loading"
  /\ calls' = [calls EXCEPT ![s] =
       [@ EXCEPT !.reader = "failed", !.promise = "rejected", !.settles = @ + 1,
                 !.pc = "done", !.outcome = "rejected"]]
  /\ UNCHANGED <<files, signatures, inputFormats, seen, conversionVars, componentVars>>

\* reader.onerror: the read failed.
ReaderOnError(s) ==
  /\ calls[s].pc = "reading"
  /\ calls[s].reader = "loading"
  /\ calls' = [calls EXCEPT ![s] = ResolveDetect([@ EXCEPT !.reader = "failed"], Null)]
  /\ UNCHANGED <<files, signatures, inputFormats, seen, conversionVars, componentVars>>

\* validateFileWithSignature after `await detectActualFileType(file)`.
ResumeValidateFileWithSignature(s) ==
  /\ calls[s].pc = "awaiting"
  /\ calls' = [calls EXCEPT ![s] =
       [@ EXCEPT !.pc = "done", !.outcome = "fulfilled",
                 !.result = SignatureVerdict(inputFormats, files[s], calls[s].value)]]
  /\ UNCHANGED <<files, signatures, inputFormats, seen, conversionVars, componentVars>>

\* The caller drops the result and is free to call again.
Return(s) ==
  /\ calls[s].pc = "done"
  /\ calls' = [calls EXCEPT ![s] = IdleCall]
  /\ seen' = [seen EXCEPT ![s] =
       IF calls[s].op = "validateFile" THEN calls[s].result ELSE @]
  /\ UNCHANGED <<files, signatures, inputFormats, conversionVars, componentVars>>

Next ==
  \E s \in Slots :
    \/ CallValidateFile(s)
    \/ CallDetect(s)
    \/ CallValidateFileWithSignature(s)
    \/ ReaderOnLoad(s)
    \/ ReaderOnError(s)
    \/ ResumeValidateFileWithSignature(s)
    \/ Return(s)

Spec == Init /\ [][Next]_vars

(***************************************************************************)
(* convertImage                                                            *)
(***************************************************************************)

OUTPUT_FORMATS ==
  << [name |-> NAME_JPEG, mimeType |-> MIME_JPEG, supportsQuality |-> TRUE],
     [name |-> NAME_PNG,  mimeType |-> MIME_PNG,  supportsQuality |-> FALSE],
     [name |-> NAME_WEBP, mimeType |-> MIME_WEBP, supportsQuality |-> TRUE] >>

MAX_DIMENSION == 16384

MAX_PIXELS == 268435456

\* A settings.width / settings.height that holds the number v.
Dim(v) == [given |-> TRUE, value |-> v]

\* A settings.width / settings.height that is null.
NoDim == [given |-> FALSE, value |-> 0]

\* dim || fallback: null and 0 are falsy.
DimOr(dim, fallback) ==
  IF dim.given /\ dim.value # 0 THEN dim.value ELSE fallback

\* const targetWidth = width || image.width
TargetWidth(image, settings) == DimOr(settings.width, image.width)

\* Mutant: the height falls back to the source's width.
TargetHeightFromWidth(image, settings) == DimOr(settings.height, image.width)

\* const targetHeight = height || image.height
TargetHeight(image, settings) == DimOr(settings.height, image.height)

\* (totalPixels / 1000000).toFixed(1) as <<integer part, tenths digit>>;
\* exact when totalPixels is not an odd multiple of 50000.
ToFixed1Millions(totalPixels) ==
  LET tenths == (totalPixels + 50000) \div 100000
  IN  <<tenths \div 10, tenths % 10>>

\* The Error messages; arg is the interpolated value.
ErrDimensions ==
  [text |-> "Dimensions too large. Maximum is ${MAX_DIMENSION}px per side. Try reducing output dimensions.",
   arg |-> <<MAX_DIMENSION>>]

ErrTotalPixels(totalPixels) ==
  [text |-> "Total pixels (${(totalPixels / 1000000).toFixed(1)}M) exceeds browser limit. Try reducing output dimensions.",
   arg |-> ToFixed1Millions(totalPixels)]

ErrNoContext ==
  [text |-> "Failed to get canvas context. Browser may be out of memory.",
   arg |-> << >>]

\* Mutant: the draw failure carries the message of the encode failure.
ErrDrawAsEncode ==
  [text |-> "Failed to encode as ${format}. Try a different format or reduce dimensions/quality.",
   arg |-> << >>]

ErrDraw ==
  [text |-> "Failed to draw image. The image may be corrupted or tainted by CORS.",
   arg |-> << >>]

ErrEncode(format) ==
  [text |-> "Failed to encode as ${format}. Try a different format or reduce dimensions/quality.",
   arg |-> format]

ErrEncodingFailed(message) ==
  [text |-> "Encoding failed: ${err.message}", arg |-> message]

\* Mutant: the per-side ceiling is exclusive.
GuardrailErrorInclusive(targetWidth, targetHeight) ==
  LET totalPixels == targetWidth * targetHeight
  IN  IF targetWidth >= MAX_DIMENSION \/ targetHeight >= MAX_DIMENSION
      THEN ErrDimensions
      ELSE IF totalPixels > MAX_PIXELS THEN ErrTotalPixels(totalPixels) ELSE Null

\* Mutant: the pixel budget is not checked.
GuardrailErrorNoPixelCheck(targetWidth, targetHeight) ==
  IF targetWidth > MAX_DIMENSION \/ targetHeight > MAX_DIMENSION
  THEN ErrDimensions
  ELSE Null

\* The two guardrail checks: the Error thrown, or Null.
GuardrailError(targetWidth, targetHeight) ==
  LET totalPixels == targetWidth * targetHeight
  IN  IF targetWidth > MAX_DIMENSION \/ targetHeight > MAX_DIMENSION
      THEN ErrDimensions
      ELSE IF totalPixels > MAX_PIXELS THEN ErrTotalPixels(totalPixels) ELSE Null

\* throw inside the async function, or reject(): the promise is rejected.
\* Its frame and closure end with it, and with them the reference to the canvas.
Reject(c, err) ==
  [c EXCEPT !.pc = "done", !.outcome = "rejected", !.error = err, !.settles = @ + 1,
            !.surface = Null]

\* resolve(blob): the promise is fulfilled and the callback's closure ends.
Resolve(c, blob) ==
  [c EXCEPT !.pc = "done", !.outcome = "fulfilled", !.blob = blob, !.settles = @ + 1,
            !.surface = Null]

\* The canvas elements the host can tell apart: one per caller is enough.
CanvasIds == Slots

\* The element createElement returns: one that no running call refers to.
NewCanvas(held) ==
  [id |-> CHOOSE i \in CanvasIds :
            /\ [id |-> i] \notin held
            /\ \A j \in CanvasIds : [id |-> j] \notin held => i <= j]

\* The two if-statements on the target size have been evaluated.
CheckGuardrails(c) == [c EXCEPT !.log = Append(@, "guardrails")]

\* Mutant: a canvas another call is using is taken instead of a new one.
CreateCanvasCached(c, held) ==
  [c EXCEPT !.log = Append(@, "createElement"),
            !.canvas = [width |-> c.targetWidth, height |-> c.targetHeight],
            !.surface = IF held # {} THEN CHOOSE h \in held : TRUE ELSE NewCanvas(held)]

\* document.createElement("canvas"); canvas.width = ...; canvas.height = ...
\* held: the canvas elements other running calls refer to.
CreateCanvas(c, held) ==
  [c EXCEPT !.log = Append(@, "createElement"),
            !.canvas = [width |-> c.targetWidth, height |-> c.targetHeight],
            !.surface = NewCanvas(held)]

\* canvas.getContext("2d")
GetContext(c) == [c EXCEPT !.log = Append(@, "getContext")]

\* ctx.fillStyle = "#FFFFFF"; ctx.fillRect(0, 0, canvas.width, canvas.height)
FillWhite(c) ==
  [c EXCEPT !.log = Append(@, "fillRect"),
            !.fill = [fillStyle |-> "#FFFFFF",
                      rect |-> <<0, 0, c.canvas.width, c.canvas.height>>]]

\* Mutant: the background is filled whatever the format.
PreFillAlways(c) == FillWhite(c)

\* if (format === "image/jpeg") { fill }
PreFill(c) == IF c.settings.format = MIME_JPEG THEN FillWhite(c) ELSE c

\* ctx.drawImage(image, 0, 0, canvas.width, canvas.height)
DrawImage(c) ==
  [c EXCEPT !.log = Append(@, "drawImage"),
            !.drawn = [rect |-> <<0, 0, c.canvas.width, c.canvas.height>>]]

\* canvas.toBlob(callback, format, quality)
ToBlob(c) ==
  [c EXCEPT !.log = Append(@, "toBlob"),
            !.encode = [type |-> c.settings.format, quality |-> c.settings.quality]]

\* The call record a convertImage call starts from.
StartConversion(image, settings) ==
  [IdleConversion EXCEPT !.image = image, !.settings = settings,
                         !.targetWidth = TargetWidth(image, settings),
                         !.targetHeight = TargetHeight(image, settings)]

\* Mutant: the canvas is created before the guardrails are checked.
ConvertSyncCanvasFirst(image, settings, held, ctxOk, drawOk, toBlobOk, message) ==
  LET c0 == CheckGuardrails(GetContext(CreateCanvas(StartConversion(image, settings), held)))
      guard == GuardrailError(c0.targetWidth, c0.targetHeight)
  IN  IF guard # Null THEN Reject(c0, guard)
      ELSE IF ~ctxOk THEN Reject(c0, ErrNoContext)
      ELSE LET c4 == DrawImage(PreFill(c0))
           IN  IF ~drawOk THEN Reject(c4, ErrDraw)
               ELSE IF ~toBlobOk THEN Reject(ToBlob(c4), ErrEncodingFailed(message))
               ELSE [ToBlob(c4) EXCEPT !.pc = "encoding", !.outcome = "pending"]

\* convertImage from its call to its first throw or to the pending toBlob.
\* ctxOk: getContext returns a context; drawOk: drawImage does not throw;
\* toBlobOk: toBlob does not throw (else it throws an Error with message).
ConvertSync(image, settings, held, ctxOk, drawOk, toBlobOk, message) ==
  LET c0 == CheckGuardrails(StartConversion(image, settings))
      guard == GuardrailError(c0.targetWidth, c0.targetHeight)
  IN  IF guard # Null THEN Reject(c0, guard)
      ELSE LET c2 == GetContext(CreateCanvas(c0, held))
           IN  IF ~ctxOk THEN Reject(c2, ErrNoContext)
               ELSE LET c4 == DrawImage(PreFill(c2))
                    IN  IF ~drawOk THEN Reject(c4, ErrDraw)
                        ELSE IF ~toBlobOk
                             THEN Reject(ToBlob(c4), ErrEncodingFailed(message))
                             ELSE [ToBlob(c4) EXCEPT !.pc = "encoding",
                                                     !.outcome = "pending"]

\* The Blob the host's encoder hands to the toBlob callback: of the requested
\* type when the host can encode it, else a PNG (the fallback
\* getSupportedFormats probes for).
\* It renders the image that was drawn on the canvas.
HostBlob(encodes, type, image) ==
  [type |-> IF type \in encodes THEN type ELSE MIME_PNG, pixels |-> image]

(***************************************************************************)
(* Inputs of convertImage                                                  *)
(***************************************************************************)

\* Sides MAX_DIMENSION - MaxOver .. MAX_DIMENSION + MaxOver are tried.
MaxOver == 1

\* quality: 0.9 of the default settings, in hundredths.
DEFAULT_QUALITY == 90

\* "SecurityError"
HOST_MESSAGE == <<83, 101, 99, 117, 114, 105, 116, 121, 69, 114, 114, 111, 114>>

Images == {[width |-> 1920, height |-> 1080], [width |-> 20000, height |-> 300]}

BoundarySides == {MAX_DIMENSION + d : d \in (0 - MaxOver)..MaxOver}

DimPairs ==
  { <<NoDim, NoDim>>, <<Dim(640), Dim(480)>>, <<Dim(640), NoDim>>,
    <<NoDim, Dim(480)>>, <<Dim(0), Dim(480)>>, <<Dim(20000), Dim(20000)>>,
    <<Dim(-20000), Dim(-16000)>> }
  \cup {<<Dim(a), Dim(b)>> : a \in BoundarySides, b \in BoundarySides}

OutputTypes == {OUTPUT_FORMATS[i].mimeType : i \in 1..Len(OUTPUT_FORMATS)}

SettingsSet ==
  {[format |-> f, quality |-> DEFAULT_QUALITY, width |-> d[1], height |-> d[2]] :
     f \in OutputTypes, d \in DimPairs}

\* Hosts: every host encodes PNG.
HostProfiles ==
  { {MIME_PNG, MIME_JPEG, MIME_WEBP}, {MIME_PNG, MIME_JPEG}, {MIME_PNG} }

(***************************************************************************)
(* Operations of the conversion pipeline                                   *)
(***************************************************************************)

InitConvert ==
  /\ files = [s \in Slots |-> NoFile]
  /\ signatures = FILE_SIGNATURES
  /\ inputFormats = INPUT_FORMATS
  /\ calls = [s \in Slots |-> IdleCall]
  /\ seen = [s \in Slots |-> Null]
  /\ hostEncodes \in HostProfiles
  /\ conv = [s \in Slots |-> IdleConversion]
  /\ sampleImages = InitialSampleImages
  /\ converter = InitialConverter
  /\ gestures = 0

\* The canvas elements the calls other than s refer to.
Held(s) == {conv[t].surface : t \in Slots \ {s}} \ {Null}

\* convertImage(image, settings) up to its return of a promise.
ConvertImageCall(s) ==
  /\ conv[s].pc = "idle"
  /\ \E image \in Images, settings \in SettingsSet,
        ctxOk \in BOOLEAN, drawOk \in BOOLEAN, toBlobOk \in BOOLEAN :
       conv' = [conv EXCEPT ![s] =
         ConvertSync(image, settings, Held(s), ctxOk, drawOk, toBlobOk, HOST_MESSAGE)]
  /\ UNCHANGED <<validationVars, hostEncodes, componentVars>>

\* Mutant: a callback that receives null asks the encoder again.
ToBlobCallbackRetrying(s) ==
  /\ conv[s].pc = "encoding"
  /\ \E encoded \in BOOLEAN :
       conv' = [conv EXCEPT ![s] =
         IF encoded
         THEN Resolve([@ EXCEPT !.callback = "blob"],
                      HostBlob(hostEncodes, conv[s].encode.type, conv[s].image))
         ELSE IF Len(conv[s].log) < 8
              THEN ToBlob([@ EXCEPT !.callback = "null"])
              ELSE Reject([@ EXCEPT !.callback = "null"],
                          ErrEncode(conv[s].settings.format))]
  /\ UNCHANGED <<validationVars, hostEncodes, componentVars>>

\* The callback passed to canvas.toBlob runs, with a Blob or with null.
ToBlobCallback(s) ==
  /\ conv[s].pc = "encoding"
  /\ \E encoded \in BOOLEAN :
       conv' = [conv EXCEPT ![s] =
         IF encoded
         THEN Resolve([@ EXCEPT !.callback = "blob"],
                      HostBlob(hostEncodes, conv[s].encode.type, conv[s].image))
         ELSE Reject([@ EXCEPT !.callback = "null"],
                     ErrEncode(conv[s].settings.format))]
  /\ UNCHANGED <<validationVars, hostEncodes, componentVars>>

\* The caller drops the settled promise and is free to call again.
ConvertReturn(s) ==
  /\ conv[s].pc = "done"
  /\ conv' = [conv EXCEPT ![s] = IdleConversion]
  /\ UNCHANGED <<validationVars, hostEncodes, componentVars>>

NextConvert ==
  \E s \in Slots :
    \/ ConvertImageCall(s)
    \/ ToBlobCallback(s)
    \/ ConvertReturn(s)

SpecConvert == InitConvert /\ [][NextConvert]_vars

(***************************************************************************)
(* SampleImages                                                            *)
(***************************************************************************)

MSG_HTTP_404 == <<72, 84, 84, 80, 32, 52, 48, 52>>
MSG_INVALID_IMAGE == <<73, 110, 118, 97, 108, 105, 100, 32, 105, 109, 97, 103, 101, 32, 102, 111, 114, 109, 97, 116>>
MSG_FAILED_TO_FETCH == <<70, 97, 105, 108, 101, 100, 32, 116, 111, 32, 102, 101, 116, 99, 104>>
MSG_ABORTED == <<84, 104, 101, 32, 111, 112, 101, 114, 97, 116, 105, 111, 110, 32, 119, 97, 115, 32, 97, 98, 111, 114, 116, 101, 100, 46>>
TXT_INVALID == <<105, 110, 118, 97, 108, 105, 100>>
TXT_CORRUPT == <<99, 111, 114, 114, 117, 112, 116>>

\* Values loadSampleImage's try block can throw.
HttpError(status, message) == [status |-> status, name |-> "", message |-> message]

PlainError(message) == [status |-> 0, name |-> "", message |-> message]

NamedError(name, message) == [status |-> 0, name |-> name, message |-> message]

\* getErrorType(error), with navigator.onLine as onLine.
getErrorType(error, onLine) ==
  IF ~onLine THEN "network"
  ELSE IF error.status = 404 THEN "not_found"
  ELSE IF error.name = "AbortError" THEN "timeout"
  ELSE IF Includes(error.message, TXT_INVALID) \/ Includes(error.message, TXT_CORRUPT)
       THEN "invalid_image"
       ELSE "unknown"

\* The place a new loadSampleImage invocation runs in: the first free one.
FreeLoad(st) ==
  CHOOSE k \in Slots :
    /\ st.loads[k].pc \in {"idle", "done"}
    /\ \A j \in Slots : st.loads[j].pc \in {"idle", "done"} => k <= j

\* Mutant: a load starts although another one is under way.
LoadSampleImageUnguarded(st, sample) ==
  IF st.disabled THEN st
  ELSE [st EXCEPT !.loadingId = [id |-> sample],
                  !.errors[sample] = Null,
                  !.globalError = Null,
                  !.loads[FreeLoad(st)] =
                     [IdleLoad EXCEPT !.pc = "fetching", !.sample = sample]]

\* loadSampleImage(sample) up to its await of fetch.
LoadSampleImage(st, sample) ==
  IF st.disabled \/ st.loadingId # Null THEN st
  ELSE [st EXCEPT !.loadingId = [id |-> sample],
                  !.errors[sample] = Null,
                  !.globalError = Null,
                  !.loads[FreeLoad(st)] =
                     [IdleLoad EXCEPT !.pc = "fetching", !.sample = sample]]

\* handleRetry(sample)
HandleRetry(st, sample) ==
  LoadSampleImage([st EXCEPT !.errors[sample] = Null], sample)

\* loadSampleImage's catch and finally blocks for the load in place k.
LoadFailed(st, k, error, onLine) ==
  LET sample == st.loads[k].sample
      errorObj == [type |-> getErrorType(error, onLine),
                   message |-> error.message, sampleId |-> sample]
  IN  IF st.loads[k].mounted
      THEN [st EXCEPT !.errors[sample] = errorObj,
                      !.globalError = IF errorObj.type = "network" THEN errorObj ELSE @,
                      !.loadingId = Null,
                      !.loads[k].pc = "done"]
      ELSE [st EXCEPT !.loads[k].pc = "done"]

\* loadSampleImage from the arrival of an image blob to its end:
\* onImageSelect is called, then the finally block runs.
LoadSucceeded(st, k, type) ==
  [st EXCEPT !.loads[k].blobType = type,
             !.loads[k].selects = @ + 1,
             !.loads[k].pc = "done",
             !.loadingId = IF st.loads[k].mounted THEN Null ELSE @]

\* Some place has room for a new invocation.
HasFreeLoad == \E k \in Slots : sampleImages.loads[k].pc \in {"idle", "done"}

\* onClick (key "click") and onKeyDown (the key pressed) of a sample card.
CardActivate(sample, key) ==
  /\ HasFreeLoad
  /\ sampleImages' =
       IF /\ key \in {"click", "Enter"}
          /\ sampleImages.loadingId # [id |-> sample]
          /\ sampleImages.errors[sample] = Null
       THEN LoadSampleImage(sampleImages, sample)
       ELSE sampleImages
  /\ UNCHANGED <<validationVars, conversionVars, converter, gestures>>

\* onClick of the retry button in a card's error overlay.
RetryClick(sample) ==
  /\ HasFreeLoad
  /\ sampleImages.errors[sample] # Null
  /\ sampleImages' = HandleRetry(sampleImages, sample)
  /\ UNCHANGED <<validationVars, conversionVars, converter, gestures>>

\* onClick of the dismiss button in a card's error overlay.
DismissClick(sample) ==
  /\ sampleImages.errors[sample] # Null
  /\ sampleImages' = [sampleImages EXCEPT !.errors[sample] = Null]
  /\ UNCHANGED <<validationVars, conversionVars, converter, gestures>>

\* onClick of the banner's retry button: handleRetryAll.
BannerRetryClick ==
  /\ HasFreeLoad
  /\ sampleImages.globalError # Null
  /\ LET failed == {i \in 1..Len(SAMPLE_IMAGES) :
                      /\ SAMPLE_IMAGES[i].id \in SampleIds
                      /\ sampleImages.errors[SAMPLE_IMAGES[i].id] # Null}
     IN  sampleImages' =
           IF failed # {}
           THEN HandleRetry(sampleImages,
                            SAMPLE_IMAGES[CHOOSE i \in failed : \A j \in failed : i <= j].id)
           ELSE sampleImages
  /\ UNCHANGED <<validationVars, conversionVars, converter, gestures>>

\* onClick of the banner's dismiss button.
BannerDismissClick ==
  /\ sampleImages.globalError # Null
  /\ sampleImages' = [sampleImages EXCEPT !.globalError = Null]
  /\ UNCHANGED <<validationVars, conversionVars, converter, gestures>>

\* The parent renders the component with another value of disabled.
SetDisabled ==
  /\ sampleImages' = [sampleImages EXCEPT !.disabled = ~@]
  /\ UNCHANGED <<validationVars, conversionVars, converter, gestures>>

\* The 15 s timer fires while fetch is pending: controller.abort().
TimeoutAbort(k) ==
  /\ sampleImages.loads[k].pc = "fetching"
  /\ \E onLine \in BOOLEAN :
       sampleImages' =
         LoadFailed(sampleImages, k, NamedError("AbortError", MSG_ABORTED), onLine)
  /\ UNCHANGED <<validationVars, conversionVars, converter, gestures>>

\* fetch settles: a response that is ok, a 404 response, or a network error.
FetchSettles(k) ==
  /\ sampleImages.loads[k].pc = "fetching"
  /\ \E outcome \in {"ok", "404", "error"}, onLine \in BOOLEAN :
       sampleImages' =
         IF outcome = "ok"
         THEN [sampleImages EXCEPT !.loads[k].pc = "blobbing",
                                   !.loads[k].responseOk = TRUE]
         ELSE IF outcome = "404"
              THEN LoadFailed(sampleImages, k, HttpError(404, MSG_HTTP_404), onLine)
              ELSE LoadFailed(sampleImages, k,
                              NamedError("TypeError", MSG_FAILED_TO_FETCH), onLine)
  /\ UNCHANGED <<validationVars, conversionVars, converter, gestures>>

\* response.blob() settles with a blob of some type: the file is handed to
\* onImageSelect, or the load fails; then the finally block runs.
BlobSettles(k) ==
  /\ sampleImages.loads[k].pc = "blobbing"
  /\ \E type \in {MIME_PNG, MIME_JPEG, MIME_TEXT, MIME_EMPTY}, onLine \in BOOLEAN :
       sampleImages' =
         IF StartsWith(type, IMAGE_SLASH)
         THEN LoadSucceeded(sampleImages, k, type)
         ELSE LoadFailed([sampleImages EXCEPT !.loads[k].blobType = type], k,
                         PlainError(MSG_INVALID_IMAGE), onLine)
  /\ UNCHANGED <<validationVars, conversionVars, converter, gestures>>

InitSamples ==
  /\ files = [s \in Slots |-> NoFile]
  /\ signatures = FILE_SIGNATURES
  /\ inputFormats = INPUT_FORMATS
  /\ calls = [s \in Slots |-> IdleCall]
  /\ seen = [s \in Slots |-> Null]
  /\ hostEncodes = {MIME_JPEG, MIME_PNG, MIME_WEBP}
  /\ conv = [s \in Slots |-> IdleConversion]
  /\ sampleImages = InitialSampleImages
  /\ converter = InitialConverter
  /\ gestures = 0

NextSamples ==
  \/ BannerRetryClick
  \/ BannerDismissClick
  \/ \E sample \in SampleIds :
       \/ \E key \in {"click", "Enter", "Tab"} : CardActivate(sample, key)
       \/ RetryClick(sample)
       \/ DismissClick(sample)
  \/ SetDisabled
  \/ \E k \in Slots :
       \/ TimeoutAbort(k)
       \/ FetchSettles(k)
       \/ BlobSettles(k)

SpecSamples == InitSamples /\ [][NextSamples]_vars

(***************************************************************************)
(* getSupportedFormats                                                     *)
(***************************************************************************)

TXT_DATA == <<100, 97, 116, 97, 58>>          \* "data:"
TXT_BASE64 == <<59, 98, 97, 115, 101, 54, 52, 44>>      \* ";base64,"

\* canvas.toDataURL(type) of a host that can encode the types in encodes:
\* a type it cannot encode is encoded as PNG.
ToDataURL(encodes, type) ==
  TXT_DATA \o (IF type \in encodes THEN type ELSE MIME_PNG) \o TXT_BASE64

\* One toDataURL call of getSupportedFormats; the host throws for the types
\* in throwing.
Probe(encodes, throwing, type) ==
  IF type \in throwing
  THEN [type |-> type, threw |-> TRUE, dataUrl |-> << >>]
  ELSE [type |-> type, threw |-> FALSE, dataUrl |-> ToDataURL(encodes, type)]

\* The toDataURL calls getSupportedFormats makes, in order.
Probes(encodes, throwing) ==
  [i \in 1..Len(OUTPUT_FORMATS) |-> Probe(encodes, throwing, OUTPUT_FORMATS[i].mimeType)]

\* Mutant: the prefix of the data URL is not compared with the format.
getSupportedFormatsUnchecked(encodes, throwing) ==
  LET Keep(format) == ~Probe(encodes, throwing, format.mimeType).threw
  IN  SelectSeq(OUTPUT_FORMATS, Keep)

\* getSupportedFormats()
getSupportedFormats(encodes, throwing) ==
  LET Keep(format) ==
        LET p == Probe(encodes, throwing, format.mimeType)
        IN  ~p.threw /\ StartsWith(p.dataUrl, TXT_DATA \o format.mimeType)
  IN  SelectSeq(OUTPUT_FORMATS, Keep)

(***************************************************************************)
(* ImageConverter and FileUpload                                           *)
(***************************************************************************)

TXT_UNDEFINED == <<117, 110, 100, 101, 102, 105, 110, 101, 100>>    \* "undefined"
TXT_CONVERTED == <<99, 111, 110, 118, 101, 114, 116, 101, 100>>    \* "converted"

\* str.split(sep) for a one-character separator.
RECURSIVE Split(_, _)
Split(str, sep) ==
  IF \A i \in 1..Len(str) : str[i] # sep
  THEN <<str>>
  ELSE LET i == CHOOSE i \in 1..Len(str) :
                  str[i] = sep /\ \A j \in 1..(i - 1) : str[j] # sep
       IN  <<SubSeq(str, 1, i - 1)>> \o Split(SubSeq(str, i + 1, Len(str)), sep)

\* pieces[i] of a JavaScript array, in a template string or under ||.
PieceAt(pieces, i) == IF i + 1 <= Len(pieces) THEN pieces[i + 1] ELSE TXT_UNDEFINED

\* Math.round(a / b) for positive a and b.
RoundDiv(a, b) == (2 * a + b) \div (2 * b)

\* validateFileWithSignature(file), its read succeeding or failing.
ValidateFileWithSignature(file, readOk) ==
  LET basic == ValidateFile(INPUT_FORMATS, file)
  IN  IF ~basic.valid THEN basic
      ELSE SignatureVerdict(INPUT_FORMATS, file,
                            IF readOk
                            THEN OnLoadValue(FILE_SIGNATURES, ReadRequest(file))
                            ELSE Null)

\* The first place of a family of handler invocations that is free.
FreePlace(places) ==
  CHOOSE k \in Slots :
    places[k].pc = "idle" /\ \A j \in Slots : places[j].pc = "idle" => k <= j

HasFreePlace(places) == \E k \in Slots : places[k].pc = "idle"

\* handleFileSelect(file, metadata) up to its await of readFileAsDataURL.
HandleFileSelect(cv, file, isSample) ==
  [cv EXCEPT !.error = Null,
             !.originalFile = file,
             !.convertedBlob = Null,
             !.currentStep = 1,
             !.inputMode = IF isSample THEN "upload" ELSE @,
             !.upload = IF isSample /\ cv.inputMode # "upload" THEN InitialFileUpload ELSE @,
             !.loads[FreePlace(cv.loads)] =
                [IdleHandler EXCEPT !.pc = "reading", !.file = file]]

\* SampleImages is unmounted: its state is gone, its loads go on.
UnmountSampleImages(st) ==
  [InitialSampleImages EXCEPT
     !.disabled = st.disabled,
     !.loads = [k \in Slots |-> [st.loads[k] EXCEPT !.mounted = FALSE]]]

\* FileUpload is unmounted: its state is gone, its validations go on.
UnmountFileUpload(cv) ==
  [cv EXCEPT !.upload = InitialFileUpload,
             !.validations = [k \in Slots |-> [cv.validations[k] EXCEPT !.mounted = FALSE]]]

\* handleReset()
HandleResetState(cv) ==
  [cv EXCEPT !.originalFile = Null,
             !.originalImage = Null,
             !.convertedBlob = Null,
             !.error = Null,
             !.currentStep = 0]

\* FileUpload.handleFile from the verdict of validateFileWithSignature on.
HandleFileVerdict(cv, k, verdict) ==
  LET file == cv.validations[k].file
      live == cv.validations[k].mounted
      ended == [cv EXCEPT !.validations[k] = IdleHandler]
  IN  IF ~verdict.valid
      THEN IF live
           THEN [ended EXCEPT !.upload.validationError = [message |-> verdict.error],
                              !.upload.isValidating = FALSE]
           ELSE ended
      ELSE LET shown ==
                 IF live
                 THEN [ended EXCEPT
                         !.upload.validationWarning =
                            IF "warning" \in DOMAIN verdict
                            THEN [text |-> verdict.warning] ELSE @,
                         !.upload.detectedType =
                            IF "actualType" \in DOMAIN verdict
                            THEN verdict.actualType ELSE @,
                         !.upload.isValidating = FALSE]
                 ELSE ended
           IN  HandleFileSelect(shown, file, FALSE)

\* A File with a name.
NamedFile(name, type, size, head) ==
  [name |-> name, type |-> type, size |-> size, head |-> head]

NAME_PHOTO_PNG == <<112, 104, 111, 116, 111, 46, 112, 110, 103>>    \* "photo.png"

NAME_NOTES_TXT == <<110, 111, 116, 101, 115, 46, 116, 120, 116>>    \* "notes.txt"

\* Files a user uploads: a PNG, a PNG one byte over the size ceiling, and a
\* text file.
UploadFiles ==
  { NamedFile(NAME_PHOTO_PNG, MIME_PNG, Len(H_PNG), H_PNG),
    NamedFile(NAME_PHOTO_PNG, MIME_PNG, MAX_SIZE + 1, H_PNG),
    NamedFile(NAME_NOTES_TXT, MIME_TEXT, Len(H_HELLO), H_HELLO) }

\* Bodies /samples/<filename> is answered with: type and size of the blob.
SampleBlobs ==
  { [type |-> MIME_PNG, size |-> Len(H_PNG)],
    [type |-> MIME_PNG, size |-> MAX_SIZE + 1],
    [type |-> MIME_TEXT, size |-> Len(H_HELLO)] }

\* Values typed into the width field.
TypedWidths == {640, 20000}

\* Sets of types for which the host's toDataURL throws.
ThrowingSets == { {}, {MIME_WEBP} }

\* Clicks, drops and keystrokes a session is followed for.
MaxGestures == 4

\* filename of the sample with the given id.
SampleFilename(id) ==
  SAMPLE_IMAGES[CHOOSE i \in 1..Len(SAMPLE_IMAGES) : SAMPLE_IMAGES[i].id = id].filename

\* The Image element loadImage resolves with.
DecodedImage(dataUrl) == [width |-> 1920, height |-> 1080, src |-> dataUrl]

InitApp ==
  /\ files = [s \in Slots |-> NoFile]
  /\ signatures = FILE_SIGNATURES
  /\ inputFormats = INPUT_FORMATS
  /\ calls = [s \in Slots |-> IdleCall]
  /\ seen = [s \in Slots |-> Null]
  /\ hostEncodes \in HostProfiles
  /\ conv = [s \in Slots |-> IdleConversion]
  /\ sampleImages = InitialSampleImages
  /\ converter = InitialConverter
  /\ gestures = 0

\* The mount effect of ImageConverter.
Mount ==
  /\ ~converter.mounted
  /\ \E throwing \in ThrowingSets :
       LET formats == getSupportedFormats(hostEncodes, throwing)
       IN  converter' =
             [converter EXCEPT
                !.mounted = TRUE,
                !.probes = Probes(hostEncodes, throwing),
                !.supportedFormats = formats,
                !.conversionSettings.format =
                   IF Len(formats) > 0 THEN formats[1].mimeType ELSE @]
  /\ UNCHANGED <<validationVars, conversionVars, sampleImages>>
  /\ UNCHANGED gestures

\* FileUpload: a file is chosen in the file input or dropped on the drop
\* zone; handleFile runs up to the FileReader's read, or to its end when
\* validateFile rejects the file.
UploadFile(file, via) ==
  /\ gestures < MaxGestures
  /\ gestures' = gestures + 1
  /\ converter.mounted
  /\ converter.inputMode = "upload"
  /\ converter.originalFile = Null
  /\ via = "input" => ~converter.upload.isValidating
  /\ HasFreePlace(converter.validations)
  /\ HasFreePlace(converter.loads)
  /\ LET k == FreePlace(converter.validations)
         started == [converter EXCEPT
                       !.upload = [InitialFileUpload EXCEPT !.isValidating = TRUE],
                       !.validations[k] =
                          [IdleHandler EXCEPT !.pc = "validating", !.file = file]]
     IN  converter' =
           IF ValidateFile(INPUT_FORMATS, file).valid
           THEN started
           ELSE HandleFileVerdict(started, k, ValidateFileWithSignature(file, TRUE))
  /\ UNCHANGED <<validationVars, conversionVars, sampleImages>>

\* The FileReader of a running validation ends; handleFile runs to its end.
ValidationSettles(k) ==
  /\ converter.validations[k].pc = "validating"
  /\ HasFreePlace(converter.loads)
  /\ \E readOk \in BOOLEAN :
       converter' =
         HandleFileVerdict(converter, k,
           ValidateFileWithSignature(converter.validations[k].file, readOk))
  /\ UNCHANGED <<validationVars, conversionVars, sampleImages>>
  /\ UNCHANGED gestures

\* SampleImages: a card is clicked.
SampleClick(sample) ==
  /\ gestures < MaxGestures
  /\ gestures' = gestures + 1
  /\ converter.mounted
  /\ converter.inputMode = "samples"
  /\ HasFreeLoad
  /\ sampleImages.loadingId = Null
  /\ sampleImages.errors[sample] = Null
  /\ sampleImages' = LoadSampleImage(sampleImages, sample)
  /\ UNCHANGED <<validationVars, conversionVars, converter>>

\* The fetch of a sample ends: with an error response, or with a body that
\* loadSampleImage hands to onImageSelect when its type starts with "image/".
SampleSettles(k) ==
  /\ sampleImages.loads[k].pc = "fetching"
  /\ HasFreePlace(converter.loads)
  /\ \/ /\ sampleImages' =
             [LoadFailed(sampleImages, k, HttpError(404, MSG_HTTP_404), TRUE)
                EXCEPT !.loads[k] = IdleLoad]
        /\ UNCHANGED converter
     \/ \E blob \in SampleBlobs :
          IF StartsWith(blob.type, IMAGE_SLASH)
          THEN LET file == NamedFile(SampleFilename(sampleImages.loads[k].sample),
                                     blob.type, blob.size, H_PNG)
                   after == [LoadSucceeded(sampleImages, k, blob.type)
                               EXCEPT !.loads[k] = IdleLoad]
               IN  /\ converter' = HandleFileSelect(converter, file, TRUE)
                   /\ sampleImages' =
                        IF converter.inputMode = "samples"
                        THEN UnmountSampleImages(after) ELSE after
          ELSE /\ sampleImages' =
                    [LoadFailed([sampleImages EXCEPT !.loads[k].blobType = blob.type], k,
                                PlainError(MSG_INVALID_IMAGE), TRUE)
                       EXCEPT !.loads[k] = IdleLoad]
               /\ UNCHANGED converter
  /\ UNCHANGED <<validationVars, conversionVars>>
  /\ UNCHANGED gestures

\* handleFileSelect: readFileAsDataURL settles.
FileReadSettles(j) ==
  /\ converter.loads[j].pc = "reading"
  /\ \E ok \in BOOLEAN :
       converter' =
         IF ok
         THEN [converter EXCEPT !.loads[j].pc = "decoding",
                                !.loads[j].dataUrl = [of |-> converter.loads[j].file]]
         ELSE [converter EXCEPT
                 !.error = [prefix |-> "Failed to load image: ",
                            cause |-> [text |-> "FileReader error", arg |-> << >>]],
                 !.currentStep = 0,
                 !.loads[j] = IdleHandler]
  /\ UNCHANGED <<validationVars, conversionVars, sampleImages>>
  /\ UNCHANGED gestures

\* handleFileSelect: loadImage settles.
ImageLoadSettles(j) ==
  /\ converter.loads[j].pc = "decoding"
  /\ \E ok \in BOOLEAN :
       converter' =
         IF ok
         THEN LET img == DecodedImage(converter.loads[j].dataUrl)
              IN  [converter EXCEPT
                     !.originalImage = img,
                     !.conversionSettings.width = Dim(img.width),
                     !.conversionSettings.height = Dim(img.height),
                     !.currentStep = 2,
                     !.loads[j] = IdleHandler]
         ELSE [converter EXCEPT
                 !.error = [prefix |-> "Failed to load image: ",
                            cause |-> [text |-> "Image load failed", arg |-> << >>]],
                 !.currentStep = 0,
                 !.loads[j] = IdleHandler]
  /\ UNCHANGED <<validationVars, conversionVars, sampleImages>>
  /\ UNCHANGED gestures

\* ConversionOptions.handleFormatChange: an option of the format select.
HandleFormatChange(f) ==
  /\ gestures < MaxGestures
  /\ gestures' = gestures + 1
  /\ converter.originalImage # Null
  /\ \E i \in 1..Len(converter.supportedFormats) :
       converter.supportedFormats[i].mimeType = f
  /\ converter' = [converter EXCEPT !.conversionSettings.format = f]
  /\ UNCHANGED <<validationVars, conversionVars, sampleImages>>

\* ConversionOptions.handleWidthChange: a number typed into the width field.
HandleWidthChange(v) ==
  /\ gestures < MaxGestures
  /\ gestures' = gestures + 1
  /\ converter.originalImage # Null
  /\ LET img == converter.originalImage
     IN  converter' =
           IF converter.conversionSettings.maintainAspectRatio
           THEN [converter EXCEPT
                   !.conversionSettings.width = Dim(v),
                   !.conversionSettings.height = Dim(RoundDiv(v * img.height, img.width))]
           ELSE [converter EXCEPT !.conversionSettings.width = Dim(v)]
  /\ UNCHANGED <<validationVars, conversionVars, sampleImages>>

\* The faults of the host during the synchronous part of convertImage.
HostFaults == {"none", "draw"}

\* Mutant: a rejected conversion leaves isConverting set.
ConversionSettledNoFinally(cv, c) ==
  IF c.outcome = "fulfilled"
  THEN [cv EXCEPT !.convertedBlob = c.blob, !.currentStep = 4, !.isConverting = FALSE]
  ELSE [cv EXCEPT !.error = [prefix |-> "Conversion failed: ", cause |-> c.error]]

\* handleConvert from the settling of convertImage's promise on.
ConversionSettled(cv, c) ==
  [(IF c.outcome = "fulfilled"
    THEN [cv EXCEPT !.convertedBlob = c.blob, !.currentStep = 4]
    ELSE [cv EXCEPT !.error = [prefix |-> "Conversion failed: ", cause |-> c.error]])
   EXCEPT !.isConverting = FALSE]

\* handleConvert: the Convert button is clicked.  It runs up to the pending
\* toBlob, or to its end when convertImage rejects before that.
HandleConvert ==
  /\ gestures < MaxGestures
  /\ gestures' = gestures + 1
  /\ converter.originalImage # Null
  /\ ~converter.isConverting
  /\ \E s \in Slots :
       /\ conv[s].pc = "idle"
       /\ \A t \in Slots : conv[t].pc = "idle" => s <= t
       /\ \E fault \in HostFaults :
            LET c == ConvertSync(converter.originalImage, converter.conversionSettings,
                                 Held(s), fault # "context", fault # "draw",
                                 fault # "toBlob", HOST_MESSAGE)
                started == [converter EXCEPT !.isConverting = TRUE,
                                             !.error = Null,
                                             !.currentStep = 3]
            IN  IF c.pc = "done"
                THEN /\ converter' = ConversionSettled(started, c)
                     /\ UNCHANGED conv
                     /\ sampleImages' =
                          [sampleImages EXCEPT !.disabled = converter'.isConverting]
                ELSE /\ converter' = started
                     /\ conv' = [conv EXCEPT ![s] = c]
                     /\ sampleImages' = [sampleImages EXCEPT !.disabled = TRUE]
  /\ UNCHANGED <<validationVars, hostEncodes>>

\* The callback passed to canvas.toBlob runs and handleConvert runs to its end.
EncodeSettles(s) ==
  /\ conv[s].pc = "encoding"
  /\ \E encoded \in BOOLEAN :
       LET c == IF encoded
                THEN Resolve([conv[s] EXCEPT !.callback = "blob"],
                             HostBlob(hostEncodes, conv[s].encode.type, conv[s].image))
                ELSE Reject([conv[s] EXCEPT !.callback = "null"],
                            ErrEncode(conv[s].settings.format))
       IN  /\ converter' = ConversionSettled(converter, c)
           /\ sampleImages' = [sampleImages EXCEPT !.disabled = converter'.isConverting]
  /\ conv' = [conv EXCEPT ![s] = IdleConversion]
  /\ UNCHANGED <<validationVars, hostEncodes>>
  /\ UNCHANGED gestures

\* handleDownload: the Download button is clicked.
HandleDownload ==
  /\ gestures < MaxGestures
  /\ gestures' = gestures + 1
  /\ converter.originalImage # Null
  /\ converter.convertedBlob # Null
  /\ LET extension == PieceAt(Split(converter.conversionSettings.format, 47), 1)
         stem == IF converter.originalFile = Null THEN << >>
                 ELSE PieceAt(Split(converter.originalFile.name, 46), 0)
         originalName == IF stem = << >> THEN TXT_CONVERTED ELSE stem
     IN  converter' =
           [converter EXCEPT
              !.download = [name |-> originalName \o <<46>> \o extension,
                            type |-> converter.convertedBlob.type],
              !.currentStep = 5]
  /\ UNCHANGED <<validationVars, conversionVars, sampleImages>>

\* FileUpload.handleReset: the reset button beside the current file.
HandleReset ==
  /\ gestures < MaxGestures
  /\ gestures' = gestures + 1
  /\ converter.inputMode = "upload"
  /\ converter.originalFile # Null
  /\ converter' = HandleResetState([converter EXCEPT !.upload.validationWarning = Null,
                                                     !.upload.detectedType = Null])
  /\ UNCHANGED <<validationVars, conversionVars, sampleImages>>

\* handleModeChange(mode): one of the two mode tabs is clicked.
HandleModeChange(mode) ==
  /\ gestures < MaxGestures
  /\ gestures' = gestures + 1
  /\ converter.mounted
  /\ mode # converter.inputMode
  /\ converter' =
       [HandleResetState(IF converter.inputMode = "upload"
                         THEN UnmountFileUpload(converter) ELSE converter)
          EXCEPT !.inputMode = mode]
  /\ sampleImages' =
       IF converter.inputMode = "samples"
       THEN UnmountSampleImages(sampleImages) ELSE sampleImages
  /\ UNCHANGED <<validationVars, conversionVars>>

NextApp ==
  \/ Mount
  \/ \E file \in UploadFiles, via \in {"input", "drop"} : UploadFile(file, via)
  \/ \E k \in Slots : ValidationSettles(k)
  \/ \E sample \in SampleIds : SampleClick(sample)
  \/ \E k \in Slots : SampleSettles(k)
  \/ \E j \in Slots : FileReadSettles(j)
  \/ \E j \in Slots : ImageLoadSettles(j)
  \/ \E f \in OutputTypes : HandleFormatChange(f)
  \/ \E v \in TypedWidths : HandleWidthChange(v)
  \/ HandleConvert
  \/ \E s \in Slots : EncodeSettles(s)
  \/ HandleDownload
  \/ HandleReset
  \/ \E mode \in {"upload", "samples"} : HandleModeChange(mode)

SpecApp == InitApp /\ [][NextApp]_vars

\* The host runs the callback of every toBlob call it accepted.
SpecAppFair == SpecApp /\ WF_vars(\E s \in Slots : EncodeSettles(s))

(***************************************************************************)
(* Vocabulary of the properties                                            *)
(***************************************************************************)

\* The first READ_WINDOW bytes of the file caller s passes.
Window(s) == Content(files[s], READ_WINDOW)

\* Caller s's sniff has resolved after a successful read.
Sniffed(s) == calls[s].promise = "resolved" /\ calls[s].reader = "loaded"

\* Descriptor d fits byte window w: every signature byte is present and
\* equal at its offset, and the descriptor's additional check (if any) holds.
DescriptorFits(d, w) ==
  /\ \A k \in 1..Len(d.signature) : k <= Len(w) /\ w[k] = d.signature[k]
  /\ d.check = "webp" => WebpAdditionalCheck(w)
  /\ d.check = "avif" => AvifAdditionalCheck(w)

Fitting(w) == {i \in 1..Len(FILE_SIGNATURES) : DescriptorFits(FILE_SIGNATURES[i], w)}

FirstFitting(w) == CHOOSE i \in Fitting(w) : \A j \in Fitting(w) : i <= j

HasTextMarker(w) ==
  Includes(w, TXT_XML) \/ Includes(w, TXT_SVG) \/ Includes(w, TXT_DOCTYPE)

IsFormat(v, mimeType, name) ==
  v # Null /\ v.mimeType = mimeType /\ v.name = name

(***************************************************************************)
(* Properties                                                              *)
(***************************************************************************)

\* C1: whenever a sniff has read its window, and some descriptor of the
\* table fits the window, the sniff result carries the mimeType and name of
\* the first fitting descriptor in table order, and of every fitting
\* descriptor; a window beginning FF D8 FF E0 00 10 4A 46 49 46 00 01 is JPEG.
C1_FirstDescriptorWins ==
  \A s \in Slots :
    Sniffed(s) =>
      /\ Fitting(Window(s)) # {} =>
           /\ IsFormat(calls[s].value,
                       FILE_SIGNATURES[FirstFitting(Window(s))].mimeType,
                       FILE_SIGNATURES[FirstFitting(Window(s))].name)
           /\ \A i \in Fitting(Window(s)) :
                IsFormat(calls[s].value, FILE_SIGNATURES[i].mimeType,
                         FILE_SIGNATURES[i].name)
      /\ StartsWith(Window(s), H_JPEG) => IsFormat(calls[s].value, MIME_JPEG, NAME_JPEG)

\* C1 witness: the 12-byte JFIF header has been sniffed as JPEG.
C1_Witness ==
  \E s \in Slots :
    /\ Sniffed(s)
    /\ Window(s) = H_JPEG
    /\ calls[s].value = SniffRecord(MIME_JPEG, NAME_JPEG)

\* C2: a window shorter than a descriptor's signature is never reported as
\* that descriptor, and a window shorter than 12 bytes (too short to hold
\* bytes 8-11, resp. 4-11) is never reported as WebP or as AVIF.
C2_ShortBufferNeverMatches ==
  \A s \in Slots :
    Sniffed(s) =>
      \A i \in 1..Len(FILE_SIGNATURES) :
        LET d == FILE_SIGNATURES[i]
        IN  /\ Len(Window(s)) < Len(d.signature) =>
                 ~IsFormat(calls[s].value, d.mimeType, d.name)
            /\ (d.check # "none" /\ Len(Window(s)) < 12) =>
                 ~IsFormat(calls[s].value, d.mimeType, d.name)

\* C3: the sniff result is SVG exactly when no descriptor of the table fits
\* the window and the window's text holds "<?xml", "<svg" or "<!DOCTYPE svg";
\* a window starting "BM" that holds "<svg" is BMP.
C3_SvgOnlyAsFallback ==
  \A s \in Slots :
    Sniffed(s) =>
      /\ IsFormat(calls[s].value, MIME_SVG, NAME_SVG)
           <=> (Fitting(Window(s)) = {} /\ HasTextMarker(Window(s)))
      /\ (StartsWith(Window(s), <<66, 77>>) /\ Includes(Window(s), TXT_SVG))
           => IsFormat(calls[s].value, MIME_BMP, NAME_BMP)

\* C3 witness: a window whose first three bytes fit the AVIF signature but
\* not its additional check, and which holds "<svg", has been sniffed as SVG.
C3_Witness ==
  \E s \in Slots :
    /\ Sniffed(s)
    /\ Window(s) = H_ZEROSVG
    /\ calls[s].value = SniffRecord(MIME_SVG, NAME_SVG)

\* C4: the promise of detectActualFileType is never rejected and is settled
\* at most once; it is pending exactly while the read is under way, and once
\* the read has ended it is resolved, by exactly one resolve call, with a
\* format record or null after a successful read and with null after a
\* failed read; an empty window and a window that no descriptor and no text
\* marker fits give null.
C4_ResolvesOnceNeverRejects ==
  \A s \in Slots :
    /\ calls[s].promise # "rejected"
    /\ calls[s].settles <= 1
    /\ calls[s].promise = "pending" <=> calls[s].reader = "loading"
    /\ calls[s].reader \in {"loaded", "failed"} =>
         /\ calls[s].promise = "resolved"
         /\ calls[s].settles = 1
         /\ \/ calls[s].value = Null
            \/ DOMAIN calls[s].value = {"mimeType", "name", "detectedFrom"}
    /\ calls[s].reader = "failed" => calls[s].value = Null
    /\ (Sniffed(s) /\ Window(s) = << >>) => calls[s].value = Null
    /\ (Sniffed(s) /\ Fitting(Window(s)) = {} /\ ~HasTextMarker(Window(s)))
         => calls[s].value = Null
    /\ calls[s].op = "detectActualFileType" =>
         /\ calls[s].outcome # "rejected"
         /\ calls[s].pc = "done" =>
              (calls[s].outcome = "fulfilled" /\ calls[s].result = calls[s].value)

\* C4 witness: a read has failed and the promise is resolved, once, with null.
C4_Witness ==
  \E s \in Slots :
    /\ calls[s].op = "detectActualFileType"
    /\ calls[s].reader = "failed"
    /\ calls[s].promise = "resolved"
    /\ calls[s].settles = 1
    /\ calls[s].result = Null

\* C5: two sniffs whose sources agree on their first 100 bytes, and whose
\* reads ended alike, resolved with the same value, whatever the sources'
\* later bytes, sizes and declared types; and no step changes the files or
\* the format tables.
C5_OnlyFirstHundredBytes ==
  /\ [](\A s, t \in Slots :
          ( /\ calls[s].promise = "resolved"
            /\ calls[t].promise = "resolved"
            /\ calls[s].reader = calls[t].reader
            /\ files[s] # NoFile /\ files[t] # NoFile
            /\ Window(s) = Window(t) )
          => calls[s].value = calls[t].value)
  /\ [][UNCHANGED <<files, signatures, inputFormats>>]_vars

\* C5 witness: two sources that agree on 100 bytes, one of which goes on with
\* "<svg" right after them, have both been sniffed, with the same result.
C5_Witness ==
  /\ Sniffed(1) /\ Sniffed(2)
  /\ Window(1) = Window(2)
  /\ Len(Window(1)) = READ_WINDOW
  /\ files[1].size = READ_WINDOW
  /\ files[2].size = READ_WINDOW + Len(TXT_SVG)
  /\ Content(files[2], files[2].size) = Window(2) \o TXT_SVG
  /\ calls[1].value = calls[2].value

\* The verdict the stated policy gives: absent file, then size, then type.
PolicyVerdict(file) ==
  IF file = NoFile THEN [valid |-> FALSE, error |-> "No file selected"]
  ELSE IF file.size > 52428800
       THEN [valid |-> FALSE, error |-> "File size exceeds 50MB limit"]
       ELSE IF /\ \A i \in 1..Len(INPUT_FORMATS) : INPUT_FORMATS[i].mimeType # file.type
               /\ ~StartsWith(file.type, IMAGE_SLASH)
            THEN [valid |-> FALSE, error |-> "Invalid file type. Please upload an image."]
            ELSE [valid |-> TRUE]

\* C6: every verdict returned by validateFile is the verdict of the first
\* failing check in the order absent file, size > 50*1024*1024, declared
\* type neither listed nor prefixed "image/"; otherwise {valid: true}.
C6_ValidateFileOrder ==
  \A s \in Slots :
    (calls[s].op = "validateFile" /\ calls[s].pc = "done") =>
      /\ calls[s].result = PolicyVerdict(files[s])
      /\ (files[s] # NoFile /\ files[s].size > 50 * 1024 * 1024)
           => calls[s].result.error = "File size exceeds 50MB limit"
      /\ (files[s] # NoFile /\ files[s].size = 50 * 1024 * 1024
          /\ StartsWith(files[s].type, IMAGE_SLASH))
           => calls[s].result = [valid |-> TRUE]

\* C6 witness: a file one byte over the ceiling whose declared type is also
\* invalid has been rejected for its size.
C6_Witness ==
  \E s \in Slots :
    /\ calls[s].op = "validateFile" /\ calls[s].pc = "done"
    /\ files[s] # NoFile
    /\ files[s].size = 50 * 1024 * 1024 + 1
    /\ files[s].type = MIME_OCTET
    /\ calls[s].result = [valid |-> FALSE, error |-> "File size exceeds 50MB limit"]

\* C7: a validateFile verdict equals the verdict of the same caller's
\* previous validateFile call on the same file and the verdict another
\* caller holds for an equal file, whatever ran in between; and no step
\* changes the files or the format tables.
C7_ValidateFileIdempotent ==
  /\ [](\A s \in Slots :
          (calls[s].op = "validateFile" /\ calls[s].pc = "done") =>
            /\ seen[s] # Null => calls[s].result = seen[s]
            /\ \A t \in Slots :
                 (calls[t].op = "validateFile" /\ calls[t].pc = "done"
                  /\ files[t] = files[s]) => calls[t].result = calls[s].result)
  /\ [][ /\ files' = files
         /\ signatures' = signatures
         /\ inputFormats' = inputFormats
         /\ inputFormats = INPUT_FORMATS ]_vars

\* C7 witness: a caller holds a second validateFile verdict on its file
\* while the other caller's deep validation of the same file is in flight.
C7_Witness ==
  \E s, t \in Slots :
    /\ s # t
    /\ files[s] = files[t]
    /\ calls[s].op = "validateFile" /\ calls[s].pc = "done"
    /\ seen[s] # Null
    /\ calls[s].result = seen[s]
    /\ calls[t].op = "validateFileWithSignature" /\ calls[t].pc = "awaiting"

\* C8: in every verdict of validateFile and of validateFileWithSignature,
\* valid = false comes with a non-empty error, and a warning comes only with
\* valid = true and without an error.
C8_VerdictShape ==
  \A s \in Slots :
    (calls[s].pc = "done"
     /\ calls[s].op \in {"validateFile", "validateFileWithSignature"}) =>
      LET v == calls[s].result
      IN  /\ "valid" \in DOMAIN v
          /\ ~v.valid => ("error" \in DOMAIN v /\ v.error # "")
          /\ "warning" \in DOMAIN v => (v.valid /\ "error" \notin DOMAIN v)

\* C8 witness: a deep validation has ended with a warning on a mismatch.
C8_Witness ==
  \E s \in Slots :
    /\ calls[s].pc = "done"
    /\ calls[s].op = "validateFileWithSignature"
    /\ "warning" \in DOMAIN calls[s].result
    /\ "correctedType" \in DOMAIN calls[s].result
    /\ calls[s].result.valid

\* C9: a validateFileWithSignature call on a file validateFile rejects has
\* ended with exactly validateFile's verdict, having started no read and
\* created no sniff promise; a read is only ever started for an accepted file.
C9_NoReadWhenRejected ==
  \A s \in Slots :
    calls[s].op = "validateFileWithSignature" =>
      /\ ~PolicyVerdict(files[s]).valid =>
           /\ calls[s].pc = "done"
           /\ calls[s].result = PolicyVerdict(files[s])
           /\ calls[s].reads = 0
           /\ calls[s].reader = "none"
           /\ calls[s].promise = "none"
      /\ calls[s].reads > 0 => PolicyVerdict(files[s]).valid

\* C9 witness: deep validation of an oversized file has ended, no read started.
C9_Witness ==
  \E s \in Slots :
    /\ calls[s].op = "validateFileWithSignature"
    /\ calls[s].pc = "done"
    /\ files[s] # NoFile
    /\ files[s].size > 50 * 1024 * 1024
    /\ calls[s].result.error = "File size exceeds 50MB limit"
    /\ calls[s].reads = 0

\* C10: when the sniff gave null and the declared type starts with "image/",
\* the deep verdict is valid = true with a non-empty warning that says the
\* format could not be verified and that processing goes by the declared
\* type (which it names), with neither actualType nor error.
C10_UnverifiableImageAccepted ==
  \A s \in Slots :
    ( /\ calls[s].op = "validateFileWithSignature"
      /\ calls[s].pc = "done"
      /\ calls[s].promise = "resolved"
      /\ calls[s].value = Null
      /\ StartsWith(files[s].type, IMAGE_SLASH) ) =>
      LET v == calls[s].result
      IN  /\ v.valid
          /\ "warning" \in DOMAIN v
          /\ Len(v.warning) > 0
          /\ StartsWith(v.warning, WARN_UNVERIFIED_PRE)
          /\ \/ Includes(v.warning, files[s].type)
             \/ \E i \in 1..Len(INPUT_FORMATS) :
                  /\ INPUT_FORMATS[i].mimeType = files[s].type
                  /\ Includes(v.warning, INPUT_FORMATS[i].name)
          /\ "actualType" \notin DOMAIN v
          /\ "error" \notin DOMAIN v

\* C10 witness: a failed read of a file declared image/tiff has ended in an
\* accepting verdict with the warning.
C10_Witness ==
  \E s \in Slots :
    /\ calls[s].op = "validateFileWithSignature"
    /\ calls[s].pc = "done"
    /\ calls[s].reader = "failed"
    /\ files[s].type = MIME_TIFF
    /\ calls[s].result.valid
    /\ calls[s].result.warning = WARN_UNVERIFIED_PRE \o MIME_TIFF \o WARN_UNVERIFIED_POST

\* C11: deep validation of the 12-byte all-zero buffer declared
\* application/octet-stream ends with the error "Unrecognized file format";
\* and a deep validation whose sniff gave null for a declared type that does
\* not start with "image/" ends with that error.
C11_UnrecognizedFormatError ==
  \A s \in Slots :
    (calls[s].op = "validateFileWithSignature" /\ calls[s].pc = "done") =>
      /\ files[s] = SmallFile(MIME_OCTET, Zeros(12)) =>
           calls[s].result =
             [valid |-> FALSE,
              error |-> "Unrecognized file format. Please upload a valid image."]
      /\ ( /\ calls[s].promise = "resolved"
           /\ calls[s].value = Null
           /\ ~StartsWith(files[s].type, IMAGE_SLASH) ) =>
           calls[s].result =
             [valid |-> FALSE,
              error |-> "Unrecognized file format. Please upload a valid image."]

\* The display name the format list gives a declared type, else the type.
DeclaredName(type) ==
  IF \E i \in 1..Len(INPUT_FORMATS) : INPUT_FORMATS[i].mimeType = type
  THEN INPUT_FORMATS[CHOOSE i \in 1..Len(INPUT_FORMATS) :
                       INPUT_FORMATS[i].mimeType = type].name
  ELSE type

\* C12: when the sniff gave a format, the deep verdict is valid = true with
\* actualType the sniffed format; it has a warning exactly when the sniffed
\* mimeType differs from the declared type; on a mismatch the warning names
\* the claimed and the detected format and correctedType is the sniffed
\* format; on a match there is neither warning nor correctedType.
C12_SniffedVerdict ==
  \A s \in Slots :
    ( /\ calls[s].op = "validateFileWithSignature"
      /\ calls[s].pc = "done"
      /\ calls[s].promise = "resolved"
      /\ calls[s].value # Null ) =>
      LET v == calls[s].result
          sniffed == calls[s].value
      IN  /\ v.valid
          /\ "error" \notin DOMAIN v
          /\ "actualType" \in DOMAIN v /\ v.actualType = sniffed
          /\ "warning" \in DOMAIN v <=> sniffed.mimeType # files[s].type
          /\ sniffed.mimeType # files[s].type =>
               /\ Includes(v.warning, DeclaredName(files[s].type))
               /\ Includes(v.warning, sniffed.name)
               /\ "correctedType" \in DOMAIN v
               /\ v.correctedType = sniffed
          /\ sniffed.mimeType = files[s].type => "correctedType" \notin DOMAIN v

\* C12 witness: PNG bytes declared image/jpeg have been validated, with a
\* warning naming JPEG and PNG and correctedType image/png.
C12_Witness ==
  \E s \in Slots :
    /\ calls[s].op = "validateFileWithSignature"
    /\ calls[s].pc = "done"
    /\ files[s] = SmallFile(MIME_JPEG, H_PNG)
    /\ calls[s].result.valid
    /\ calls[s].result.correctedType.mimeType = MIME_PNG
    /\ Includes(calls[s].result.warning, NAME_JPEG)
    /\ Includes(calls[s].result.warning, NAME_PNG)

\* C13: no call of validateFile or validateFileWithSignature ends in an
\* exception or a rejected promise; whenever one has ended (absent file, any
\* size, declared type and content, read succeeded or failed) its outcome is
\* a returned, resp. fulfilled, verdict.
C13_VerdictsNeverThrown ==
  \A s \in Slots :
    calls[s].op \in {"validateFile", "validateFileWithSignature"} =>
      /\ calls[s].outcome # "rejected"
      /\ calls[s].promise # "rejected"
      /\ calls[s].reader \in {"loaded", "failed"} => calls[s].pc \in {"awaiting", "done"}
      /\ calls[s].pc = "done" =>
           /\ calls[s].outcome =
                IF calls[s].op = "validateFile" THEN "returned" ELSE "fulfilled"
           /\ "valid" \in DOMAIN calls[s].result
           /\ calls[s].result.valid \in BOOLEAN

\* C13 witness: a deep validation whose read failed is fulfilled with a verdict.
C13_Witness ==
  \E s \in Slots :
    /\ calls[s].op = "validateFileWithSignature"
    /\ calls[s].pc = "done"
    /\ calls[s].reader = "failed"
    /\ calls[s].outcome = "fulfilled"
    /\ "valid" \in DOMAIN calls[s].result

(***************************************************************************)
(* Properties of the conversion pipeline                                   *)
(***************************************************************************)

\* The convertImage calls that have been made and not yet returned from.
Made == {s \in Slots : conv[s].pc # "idle"}

\* The calls that settled with the given outcome.
Settled(outcome) == {s \in Made : conv[s].pc = "done" /\ conv[s].outcome = outcome}

\* A settings dimension that is provided: a number other than 0.
Provided(dim) == dim.given /\ dim.value # 0

\* Position of the first occurrence of a host call in a log, 0 if absent.
IndexOf(log, call) ==
  IF \E i \in 1..Len(log) : log[i] = call
  THEN CHOOSE i \in 1..Len(log) : log[i] = call /\ \A j \in 1..(i - 1) : log[j] # call
  ELSE 0

\* Number of occurrences of a host call in a log.
Count(log, call) == Cardinality({i \in 1..Len(log) : log[i] = call})

\* C14: in every convertImage call the target width is settings.width when
\* provided (a non-zero number) and the image's width otherwise, the target
\* height likewise from settings.height and the image's height, each axis on
\* its own; a canvas that is created has exactly this width and height; and
\* the call fails on a guardrail exactly when these target values break one.
C14_TargetSizePerAxis ==
  \A s \in Made :
    LET c == conv[s]
        w == IF Provided(c.settings.width) THEN c.settings.width.value ELSE c.image.width
        h == IF Provided(c.settings.height) THEN c.settings.height.value ELSE c.image.height
    IN  /\ c.targetWidth = w
        /\ c.targetHeight = h
        /\ c.canvas # Null => c.canvas.width = w /\ c.canvas.height = h
        /\ c.canvas = Null <=> (w > 16384 \/ h > 16384 \/ w * h > 268435456)

\* C14 witness: one call with only the width given and one with only the
\* height given were both converted on canvases mixing the two sources.
C14_Witness ==
  /\ Settled("fulfilled") = Slots
  /\ conv[1].settings.width = Dim(640) /\ conv[1].settings.height = NoDim
  /\ conv[1].image.height = 1080 /\ conv[1].canvas = [width |-> 640, height |-> 1080]
  /\ conv[2].settings.width = NoDim /\ conv[2].settings.height = Dim(480)
  /\ conv[2].image.width = 1920 /\ conv[2].canvas = [width |-> 1920, height |-> 480]

\* C15: a convertImage call fails with the "Dimensions too large" error, which
\* names 16384, if and only if its target width or its target height is above
\* 16384; a 16384 x 16384 target passes both guardrails and can be converted.
C15_PerSideCeiling ==
  \A s \in Made :
    LET c == conv[s]
        tooLarge == /\ c.outcome = "rejected"
                    /\ c.error.text = ErrDimensions.text
                    /\ c.error.arg = <<16384>>
    IN  /\ tooLarge <=> (c.targetWidth > 16384 \/ c.targetHeight > 16384)
        /\ (c.targetWidth = 16384 /\ c.targetHeight = 16384) =>
             /\ c.canvas = [width |-> 16384, height |-> 16384]
             /\ c.error # Null => c.error \in {ErrNoContext, ErrDraw,
                                               ErrEncode(c.settings.format),
                                               ErrEncodingFailed(HOST_MESSAGE)}

\* C15 witness: a 16384 x 16384 target was converted while a 16385 x 16383
\* target was refused with the error naming 16384.
C15_Witness ==
  /\ conv[1].targetWidth = 16384 /\ conv[1].targetHeight = 16384
  /\ 1 \in Settled("fulfilled")
  /\ conv[2].targetWidth = 16385 /\ conv[2].targetHeight = 16383
  /\ 2 \in Settled("rejected")
  /\ conv[2].error = ErrDimensions

\* C16: a call whose target sides differ, are each at most 16384, and multiply
\* to more than 268,435,456 fails with the "Total pixels ... exceeds browser
\* limit" error carrying the megapixel count, and not with the per-side error.
C16_PixelBudget ==
  \A s \in Made :
    LET c == conv[s]
        pixels == c.targetWidth * c.targetHeight
    IN  ( /\ c.targetWidth # c.targetHeight
          /\ c.targetWidth <= 16384 /\ c.targetHeight <= 16384
          /\ pixels > 268435456 ) =>
          /\ c.outcome = "rejected"
          /\ c.error.text = ErrTotalPixels(pixels).text
          /\ c.error.arg = <<((pixels + 50000) \div 100000) \div 10,
                              ((pixels + 50000) \div 100000) % 10>>
          /\ c.error.text # ErrDimensions.text
          /\ c.log = <<"guardrails">>

\* C16 witness: the target -20000 x -16000 (320,000,000 pixels, no side above
\* 16384) was refused with the pixel-budget error reporting 320.0M.
C16_Witness ==
  \E s \in Settled("rejected") :
    /\ conv[s].targetWidth = -20000 /\ conv[s].targetHeight = -16000
    /\ conv[s].error.text = ErrTotalPixels(320000000).text
    /\ conv[s].error.arg = <<320, 0>>

\* The four steps of the pipeline, in the order of the source text.
StepOrder == <<"guardrails", "createElement", "drawImage", "toBlob">>

IsStep(call) == \E i \in 1..Len(StepOrder) : StepOrder[i] = call

\* The steps a call has taken, in the order it took them.
Steps(s) == SelectSeq(conv[s].log, IsStep)

\* The last host call a call made.
LastCall(s) == conv[s].log[Len(conv[s].log)]

\* C17: the steps of a call are taken in the order guardrails, canvas
\* creation, draw, encode, each at most once; a guardrail failure leaves no
\* canvas, draw or encode behind; encode is requested only after a draw that
\* did not throw; a fulfilled call has taken each of the four steps once.
C17_StepOrder ==
  \A s \in Made :
    LET c == conv[s]
    IN  /\ Len(Steps(s)) <= Len(StepOrder)
        /\ Steps(s) = SubSeq(StepOrder, 1, Len(Steps(s)))
        /\ (c.error # Null /\ c.error.text \in {ErrDimensions.text, ErrTotalPixels(0).text}) =>
             /\ c.log = <<"guardrails">>
             /\ c.canvas = Null /\ c.fill = Null /\ c.drawn = Null /\ c.encode = Null
        /\ c.encode # Null => c.drawn # Null /\ c.error # ErrDraw
        /\ c.error = ErrDraw => c.encode = Null /\ LastCall(s) = "drawImage"
        /\ c.outcome = "fulfilled" => Steps(s) = StepOrder

\* C17 witness: one call went through all four steps to a result while the
\* 20000 x 20000 request was refused with nothing but the guardrails run.
C17_Witness ==
  /\ 1 \in Settled("fulfilled")
  /\ Steps(1) = StepOrder
  /\ 2 \in Settled("rejected")
  /\ conv[2].settings.width = Dim(20000) /\ conv[2].settings.height = Dim(20000)
  /\ conv[2].log = <<"guardrails">>
  /\ conv[2].error = ErrDimensions

\* C18: a call whose format is image/jpeg, the one output format without an
\* alpha channel, has filled the whole canvas with #FFFFFF before it draws; a
\* call whose format is image/png or image/webp never fills.
C18_WhiteFillBeforeDraw ==
  \A s \in Made :
    LET c == conv[s]
        fillAt == IndexOf(c.log, "fillRect")
        drawAt == IndexOf(c.log, "drawImage")
    IN  /\ c.settings.format = MIME_JPEG =>
             (drawAt > 0 =>
                /\ fillAt > 0 /\ fillAt < drawAt
                /\ Count(c.log, "fillRect") = 1
                /\ c.fill = [fillStyle |-> "#FFFFFF",
                             rect |-> <<0, 0, c.targetWidth, c.targetHeight>>])
        /\ c.settings.format \in {MIME_PNG, MIME_WEBP} =>
             fillAt = 0 /\ c.fill = Null

\* C18 witness: a JPEG conversion that filled and then drew, next to a WebP
\* conversion that drew without filling.
C18_Witness ==
  /\ Settled("fulfilled") = Slots
  /\ conv[1].settings.format = MIME_JPEG
  /\ conv[1].log = <<"guardrails", "createElement", "getContext", "fillRect",
                     "drawImage", "toBlob">>
  /\ conv[2].settings.format = MIME_WEBP
  /\ conv[2].log = <<"guardrails", "createElement", "getContext", "drawImage", "toBlob">>

\* What made a rejected call fail, read off the calls it made.
Cause(s) ==
  IF LastCall(s) = "guardrails"
  THEN IF conv[s].targetWidth > 16384 \/ conv[s].targetHeight > 16384
       THEN "side" ELSE "pixels"
  ELSE IF LastCall(s) = "toBlob"
       THEN IF conv[s].callback = "null" THEN "noOutput" ELSE "toBlobThrew"
       ELSE LastCall(s)

\* C19: a rejected call was rejected once, with one Error and no blob, and the
\* Error's message is the one of the stage that failed: "Failed to draw
\* image" exactly for a drawImage that threw, "Failed to encode as <format>"
\* exactly for a callback that received null, the dimension and pixel
\* messages exactly for the guardrails; calls that failed for different
\* causes carry different messages.
C19_OneFailurePerStage ==
  /\ \A s \in Made : conv[s].settles <= 1 /\ (conv[s].error # Null <=> conv[s].outcome = "rejected")
  /\ \A s \in Settled("rejected") :
       LET c == conv[s]
       IN  /\ c.settles = 1 /\ c.blob = Null
           /\ Cause(s) = "drawImage" <=> c.error.text = ErrDraw.text
           /\ Cause(s) = "noOutput" <=>
                (c.error.text = ErrEncode(c.settings.format).text
                   /\ c.error.arg = c.settings.format)
           /\ Cause(s) = "toBlobThrew" <=> c.error.text = ErrEncodingFailed(<< >>).text
           /\ Cause(s) = "getContext" <=> c.error.text = ErrNoContext.text
           /\ Cause(s) = "side" <=> c.error.text = ErrDimensions.text
           /\ Cause(s) = "pixels" <=> c.error.text = ErrTotalPixels(0).text
  /\ \A s \in Settled("rejected"), t \in Settled("rejected") :
       Cause(s) # Cause(t) => conv[s].error.text # conv[t].error.text

\* C19 witness: one call failed in drawImage and one in the encoder, and the
\* two carry their own messages.
C19_Witness ==
  /\ Settled("rejected") = Slots
  /\ Cause(1) = "drawImage" /\ conv[1].error = ErrDraw
  /\ Cause(2) = "noOutput" /\ conv[2].error = ErrEncode(MIME_WEBP)

\* C20: every fulfilled convertImage call hands back a blob whose type is the
\* format that was requested.
C20_ResultTypeIsRequested ==
  \A s \in Settled("fulfilled") : conv[s].blob.type = conv[s].settings.format

\* C26: a window is sniffed as AVIF only if its bytes 0-2 are 00 00 00, its
\* bytes 4-7 are "ftyp" and "avif" occurs after byte 7.
C26_AvifNeedsFtypAtOffset4 ==
  \A s \in Slots :
    (Sniffed(s) /\ IsFormat(calls[s].value, MIME_AVIF, NAME_AVIF)) =>
      LET w == Window(s)
      IN  /\ Len(w) >= 8
          /\ SubSeq(w, 1, 3) = <<0, 0, 0>>
          /\ SubSeq(w, 5, 8) = TXT_FTYP
          /\ Includes(SubSeq(w, 9, Len(w)), TXT_AVIF)

\* C28: every deep verdict has the valid flag the synchronous checks give the
\* same file, whatever the sniff gave (match, mismatch, nothing, failed
\* read), and an error of a deep verdict is one of the three synchronous
\* errors.
C28_DeepNeverStricter ==
  \A s \in Slots :
    (calls[s].op = "validateFileWithSignature" /\ calls[s].pc = "done") =>
      /\ calls[s].result.valid = PolicyVerdict(files[s]).valid
      /\ ~calls[s].result.valid =>
           calls[s].result.error \in {"No file selected",
                                      "File size exceeds 50MB limit",
                                      "Invalid file type. Please upload an image."}

\* C28 witness: two deep validations of accepted files have ended valid, one
\* whose window was read and matched nothing, one whose sniff contradicted
\* the declared type.
C28_Witness ==
  \E s, t \in Slots :
    /\ calls[s].op = "validateFileWithSignature" /\ calls[s].pc = "done"
    /\ Sniffed(s) /\ calls[s].value = Null /\ calls[s].result.valid
    /\ calls[t].op = "validateFileWithSignature" /\ calls[t].pc = "done"
    /\ Sniffed(t) /\ calls[t].value # Null
    /\ calls[t].value.mimeType # files[t].type /\ calls[t].result.valid

C22_NoInternalRetry ==
  /\ [](\A s \in Made :
          LET c == conv[s]
          IN  /\ Count(c.log, "drawImage") <= 1
              /\ Count(c.log, "toBlob") <= 1
              /\ c.settles <= 1
              /\ c.callback # "none" => c.pc = "done"
              /\ c.pc = "done" =>
                   /\ c.settles = 1
                   /\ c.outcome \in {"fulfilled", "rejected"}
                   /\ c.outcome = "fulfilled" <=> c.blob # Null
                   /\ c.outcome = "rejected" <=> c.error # Null)
  /\ [][\A s \in Slots :
          conv[s].pc = "done" => conv'[s] \in {conv[s], IdleConversion}]_vars

\* C22 witness: a call whose encoder gave no output is rejected, after one
\* draw and one encode attempt.
C22_Witness ==
  \E s \in Settled("rejected") :
    /\ conv[s].callback = "null"
    /\ Count(conv[s].log, "drawImage") = 1
    /\ Count(conv[s].log, "toBlob") = 1
    /\ conv[s].settles = 1

\* The loadSampleImage invocations that are between their fetch and their end.
InFlight == {k \in Slots : sampleImages.loads[k].pc \in {"fetching", "blobbing"}}

\* C27: at most one sample load is in flight; one is in flight exactly while
\* loadingId is set, so that clicks, key presses and retries made meanwhile,
\* or while the component is disabled, start none; and every invocation has
\* called onImageSelect at most once, and only at its end, after an ok
\* response whose blob's type starts with "image/".
C27_OneSampleLoadAtATime ==
  /\ [](/\ Cardinality(InFlight) <= 1
        /\ sampleImages.loadingId # Null <=> InFlight # {}
        /\ \A k \in InFlight : sampleImages.loadingId = [id |-> sampleImages.loads[k].sample]
        /\ \A k \in Slots :
             LET l == sampleImages.loads[k]
             IN  /\ l.selects <= 1
                 /\ l.selects = 1 =>
                      /\ l.pc = "done"
                      /\ l.responseOk
                      /\ StartsWith(l.blobType, IMAGE_SLASH))
  /\ [][(sampleImages.disabled \/ sampleImages.loadingId # Null) =>
          \A k \in Slots :
            sampleImages'.loads[k].pc = "fetching" => sampleImages.loads[k].pc = "fetching"]_vars

\* C27 witness: the load of "illustration" is reading its blob, the only
\* one in flight, while "photo" shows the error of an earlier load and the
\* component has been disabled.
C27_Witness ==
  /\ sampleImages.disabled
  /\ sampleImages.loadingId = [id |-> "illustration"]
  /\ sampleImages.errors["photo"] # Null
  /\ \E k \in Slots : sampleImages.loads[k].pc = "blobbing"

\* The MIME type a data URL is tagged with: what stands between "data:" and
\* the first ";".
Tag(dataUrl) ==
  LET head == Split(dataUrl, 59)[1]
  IN  IF StartsWith(head, TXT_DATA) THEN SubSeq(head, Len(TXT_DATA) + 1, Len(head)) ELSE << >>

\* Position of a format in OUTPUT_FORMATS.
TableIndex(format) == CHOOSE i \in 1..Len(OUTPUT_FORMATS) : OUTPUT_FORMATS[i] = format

\* C25: once the mount effect has run, supportedFormats holds, in table
\* order and once each, exactly the formats of OUTPUT_FORMATS whose probe did
\* not throw and returned a data URL tagged with the format asked for; and it
\* holds PNG whenever some probe returned data tagged image/png.
C25_SupportedFormatsAreTheProbedOnes ==
  converter.mounted =>
    LET probes == converter.probes
        formats == converter.supportedFormats
        Kept == {i \in 1..Len(OUTPUT_FORMATS) :
                   /\ ~probes[i].threw
                   /\ Tag(probes[i].dataUrl) = OUTPUT_FORMATS[i].mimeType}
    IN  /\ Len(probes) = Len(OUTPUT_FORMATS)
        /\ \A i \in 1..Len(probes) : probes[i].type = OUTPUT_FORMATS[i].mimeType
        /\ Len(formats) = Cardinality(Kept)
        /\ \A j \in 1..Len(formats) : \E i \in Kept : formats[j] = OUTPUT_FORMATS[i]
        /\ \A j, k \in 1..Len(formats) :
             j < k => TableIndex(formats[j]) < TableIndex(formats[k])
        /\ (\E i \in 1..Len(probes) : ~probes[i].threw /\ Tag(probes[i].dataUrl) = MIME_PNG)
             => \E j \in 1..Len(formats) : formats[j].mimeType = MIME_PNG

\* C25 witness: on a host that encodes JPEG as PNG and throws for WebP, the
\* mount effect has found PNG alone.
C25_Witness ==
  /\ converter.mounted
  /\ \E i \in 1..Len(converter.probes) : converter.probes[i].threw
  /\ \E i \in 1..Len(converter.probes) :
       /\ ~converter.probes[i].threw
       /\ converter.probes[i].type = MIME_JPEG
       /\ Tag(converter.probes[i].dataUrl) = MIME_PNG
  /\ converter.supportedFormats = <<OUTPUT_FORMATS[2]>>

\* The error a failed handleConvert shows.
ConversionFailed(cv) == cv.error # Null /\ cv.error.prefix = "Conversion failed: "

\* C23: isConverting is set exactly while a conversion awaits its encoder,
\* and it falls again, the conversion resolving or rejecting; the step that
\* shows a conversion's failure stores no converted blob and leaves
\* isConverting false, so that the Convert button takes the next request.
C23_ConverterReadyAfterFailure ==
  /\ [](/\ converter.isConverting <=> \E s \in Slots : conv[s].pc = "encoding"
        /\ ConversionFailed(converter) => ~converter.isConverting)
  /\ [][(ConversionFailed(converter') /\ converter'.error # converter.error) =>
          /\ converter'.convertedBlob = converter.convertedBlob
          /\ ~converter'.isConverting]_vars
  /\ (converter.isConverting ~> ~converter.isConverting)

\* C23 witness: a conversion to 20000 x 11250 was refused; its error is
\* shown, no blob is stored, and the Convert button is enabled for the
\* image that is still loaded.
C23_Witness ==
  /\ ConversionFailed(converter)
  /\ converter.error.cause = ErrDimensions
  /\ converter.convertedBlob = Null
  /\ converter.originalImage # Null
  /\ ~converter.isConverting

\* The files handleFileSelect has been called with and is still working on
\* or holds as originalFile.
SelectedFiles ==
  ({converter.originalFile} \cup
   {converter.loads[j].file : j \in {i \in Slots : converter.loads[i].pc # "idle"}})
  \ {Null}

\* C24: every file handed to handleFileSelect, from FileUpload or from
\* SampleImages, is one validateFileWithSignature accepts: of an accepted
\* type and of at most 50 MiB.
C24_SelectedFilesWereValidated ==
  \A file \in SelectedFiles :
    /\ ValidateFileWithSignature(file, TRUE).valid
    /\ file.size <= MAX_SIZE

\* C29: originalImage is set only while originalFile is set, and is the
\* decode of that file; convertedBlob is set only while originalImage is set,
\* and renders that image.
C29_StateStaysConsistent ==
  /\ converter.originalImage # Null =>
       /\ converter.originalFile # Null
       /\ converter.originalImage.src.of = converter.originalFile
  /\ converter.convertedBlob # Null =>
       /\ converter.originalImage # Null
       /\ converter.convertedBlob.pixels = converter.originalImage

\* What follows the last occurrence of a separator in a string.
AfterLast(str, sep) == LET pieces == Split(str, sep) IN pieces[Len(pieces)]

\* C30: the file name of a download ends in the subtype of the MIME type of
\* the blob that is downloaded.
C30_DownloadNamedAfterBlob ==
  converter.download # Null =>
    AfterLast(converter.download.name, 46) = AfterLast(converter.download.type, 47)

====
